---- MODULE Spec2Model ----
(***************************************************************************)
(* Model of rusty_v8_helper: the native object wrapper (ObjectWrap, its    *)
(* reference counts and its interplay with the engine's weak handles) and  *)
(* the call adapter generated by #[v8_ffi].                                *)
(*                                                                         *)
(* The engine (rusty_v8 Global<Object>, the GC) is not part of the         *)
(* repository.  It is modelled at the places where the repository calls    *)
(* it, with the behaviour the Weakable implementation is written against:  *)
(*   - Global::set_weakable stores the Rc it is given (one strong count    *)
(*     on the wrapper's internal state for as long as the Global lives);   *)
(*   - Global::set_weak on a handle that is not weak calls Weakable::get   *)
(*     and registers the returned pointer with the GC; on a weak handle it *)
(*     leaves the registration alone;                                      *)
(*   - Global::clear_weak on a weak handle unregisters and calls           *)
(*     Weakable::clear; on a strong handle it does nothing;                *)
(*   - the GC may run the weak callback of a weak handle, once, and the    *)
(*     object is gone afterwards.                                          *)
(***************************************************************************)
EXTENDS Integers, Sequences, FiniteSets, TLC

\* ---- bounds ----
MaxPayloads == 2
MaxClones == 2
MaxRefs == 2
MaxVal == 1
MaxArgs == 2

\* the longest Array script passes to a conversion
MaxLen == 5

\* the longest Vec a conversion encodes
MaxVec == 2

\* adapter invocations in progress at a time, one inside the other
MaxDepth == 2

\* calls into script that one run of a function body makes
MaxNested == 1

\* Wrappers share nothing (new allocates a fresh Rc<T> and is given a fresh
\* engine object), so the life of one wrapper is followed.
Wrappers == {1}
Payloads == 1..MaxPayloads
Values == 1..MaxVal

\* Native types that can be wrapped, by the low 64 bits of their TypeId.
\* 2 and 3 differ only in bit 0, so their tags collide.
TypeIds == {2, 3, 4}

\* Internal-field counts of engine objects that were not made for a wrapper.
PlainCounts == {0, 1, 3}

None == 0

\* hasher.finish() & (!1_u64): the type id with bit 0 cleared.
type_id_to_u64(t) == t - (t % 2)

Tags == {type_id_to_u64(t) : t \in TypeIds}

VARIABLES
  isolateAlive,  \* the isolate behind isolate_handle has not been disposed
  wrapper,       \* per wrapper: the ObjectWrapInternal and the handles to it
  object,        \* per wrapper: the engine object it was created on
  payload,       \* per payload id: the Rc<T> allocation
  sharedRefs,    \* per payload id: Rc<T> values held by native code
  nextPayload,   \* next unused payload id
  panicked,      \* an assert_eq!/unwrap() of the crate has failed
  lastOp,        \* the operation that produced this state, and its result
  call,          \* the adapter invocation in progress, if any
  conv           \* the conversion of a value in progress, if any

vars == <<isolateAlive, wrapper, object, payload, sharedRefs, nextPayload,
          panicked, lastOp, call, conv>>

\* ---- std::rc::Rc<T> on a payload ----

\* Rc::clone: one more strong count.
RcClone(pl, p) == [pl EXCEPT ![p].rc = @ + 1]

\* drop(Rc<T>): one strong count less; the value is destroyed when the
\* count reaches zero.  Releasing a count that is not there (rc <= 0) is
\* undefined behaviour; the count is left to show it.
RcRelease(pl, p) ==
  IF pl[p].rc = 1
    THEN [pl EXCEPT ![p].rc = 0, ![p].live = FALSE]
    ELSE [pl EXCEPT ![p].rc = @ - 1]

\* cbRel and dropRel count the times the weak callback and the destructor
\* of the wrapper released the wrapper's share of the payload.
\* locked: the payload is a Mutex and its lock is taken.
FreshPayload(v) ==
  [rc |-> 1, live |-> TRUE, val |-> v, cbRel |-> 0, dropRel |-> 0,
   locked |-> FALSE]

NoPayload ==
  [rc |-> 0, live |-> FALSE, val |-> 0, cbRel |-> 0, dropRel |-> 0,
   locked |-> FALSE]

NoWrapper ==
  [created |-> FALSE, ty |-> 0, handle |-> FALSE, weak |-> FALSE,
   wrapping |-> None, v8_reference |-> FALSE, strong |-> 0,
   dropped |-> FALSE, clones |-> 0]

NoObject == [count |-> 2, slot0 |-> 0, slot1 |-> None, collected |-> FALSE]

\* lastOp: operation, wrapper, requested type, result, payload handed out,
\* engine object looked at
Op(name, w, res, p) ==
  [op |-> name, w |-> w, t |-> 0, res |-> res, p |-> p, ob |-> NoObject]

OpOn(name, w, t, res, p, ob) ==
  [op |-> name, w |-> w, t |-> t, res |-> res, p |-> p, ob |-> ob]

Opt(p) == IF p = None THEN "none" ELSE "some"

Bool(b) == IF b THEN "true" ELSE "false"

RECURSIVE SumTo(_, _)
SumTo(f, n) == IF n = 0 THEN 0 ELSE f[n] + SumTo(f, n - 1)

\* number of Rc<T> values native code holds
RefsHeld == SumTo(sharedRefs, MaxPayloads)

\* ---- Weakable for ObjectWrapInternal ----

\* Weakable::get: leaks one more Rc<Self> as the callback parameter and
\* stores it in v8_reference, which must have been None.
Weakable_get(wr) == [wr EXCEPT !.v8_reference = TRUE, !.strong = @ + 1]

Weakable_get_panics(wr) == wr.v8_reference

\* a clear that drops the count and leaves the pointer in v8_reference
Weakable_clear_keeps_reference(wr) ==
  IF wr.v8_reference THEN [wr EXCEPT !.strong = @ - 1] ELSE wr

\* Weakable::clear: takes v8_reference back (unwrap() of it) and drops it.
Weakable_clear(wr) ==
  IF wr.v8_reference
    THEN [wr EXCEPT !.v8_reference = FALSE, !.strong = @ - 1]
    ELSE wr

Weakable_clear_panics(wr) == ~wr.v8_reference

\* Global::set_weak / Global::clear_weak / Global::is_weak of the engine
\* binding, as the wrapper calls them.
Global_set_weak(wr) ==
  IF wr.weak THEN wr ELSE [Weakable_get(wr) EXCEPT !.weak = TRUE]

Global_clear_weak(wr) ==
  IF wr.weak THEN [Weakable_clear(wr) EXCEPT !.weak = FALSE] ELSE wr

Global_is_weak(wr) == wr.weak

\* ---- results of the ObjectWrap accessors ----

\* self.0.handle.borrow().as_ref()?.get(scope)
get_result(wr) == IF wr.handle THEN "some" ELSE "none"

is_empty_result(wr) == ~wr.handle

is_weak_result(wr) == IF wr.handle THEN Global_is_weak(wr) ELSE FALSE

\* the payload unwrap hands out: the pointer in slot 1, if the handle is set
unwrap_result(wr, ob) == IF wr.handle THEN ob.slot1 ELSE None

\* from_object without the comparison of the type tags
from_object_result_untagged(ob, t) ==
  IF ob.count # 2 THEN None ELSE ob.slot1

\* the payload from_object::<t> hands out for an engine object
from_object_result(ob, t) ==
  IF ob.count # 2 THEN None
  ELSE IF type_id_to_u64(t) # ob.slot0 THEN None
  ELSE ob.slot1

\* a destructor that releases the payload whether or not the handle is
\* still set
drop_unchecked(wr, ob, pl, iso) ==
  IF ~iso THEN [wr |-> [wr EXCEPT !.dropped = TRUE], pl |-> pl]
  ELSE [wr |-> [wr EXCEPT !.handle = FALSE, !.wrapping = None,
                          !.dropped = TRUE],
        pl |-> [RcRelease(pl, ob.slot1) EXCEPT ![ob.slot1].dropRel = @ + 1]]

\* ---- impl Drop for ObjectWrapInternal ----

\* Runs when the last Rc<ObjectWrapInternal> goes away.  iso: the isolate
\* pointer behind isolate_handle is still there.
drop(wr, ob, pl, iso) ==
  IF ~iso THEN [wr |-> [wr EXCEPT !.dropped = TRUE], pl |-> pl]
  ELSE IF ~wr.handle THEN [wr |-> [wr EXCEPT !.dropped = TRUE], pl |-> pl]
  ELSE
    LET taken == [wr EXCEPT !.handle = FALSE]
        strongd == IF Global_is_weak(taken) THEN Global_clear_weak(taken)
                   ELSE taken
    IN IF ob.collected
         THEN [wr |-> [strongd EXCEPT !.dropped = TRUE], pl |-> pl]
         ELSE [wr |-> [strongd EXCEPT !.wrapping = None, !.dropped = TRUE],
               pl |-> [RcRelease(pl, ob.slot1) EXCEPT
                         ![ob.slot1].dropRel = @ + 1]]

\* drop(Rc<ObjectWrapInternal>): one strong count less on the wrapper's
\* internal state, running its Drop when that was the last one.
RcReleaseWrapper(wr, ob, pl, iso) ==
  LET less == [wr EXCEPT !.strong = @ - 1]
  IN IF less.strong = 0 THEN drop(less, ob, pl, iso)
     ELSE [wr |-> less, pl |-> pl]

\* a callback that forgets to release the payload in `wrapping`
wrap_weak_callback_keeps_payload(wr, ob, pl, iso) ==
  IF ~wr.handle THEN RcReleaseWrapper(wr, ob, pl, iso)
  ELSE
    LET taken == [wr EXCEPT !.handle = FALSE, !.weak = FALSE,
                            !.wrapping = None]
        global_dropped == [taken EXCEPT !.strong = @ - 1]
    IN RcReleaseWrapper(global_dropped, ob, pl, iso)

\* ---- extern "C" fn wrap_weak_callback ----

\* `this` takes over the count leaked by Weakable::get; the Global taken out
\* of handle is reset and dropped at the end of the callback (with the Rc it
\* was given by set_weakable), then `this` is dropped.
wrap_weak_callback(wr, ob, pl, iso) ==
  IF ~wr.handle THEN RcReleaseWrapper(wr, ob, pl, iso)
  ELSE
    LET taken == [wr EXCEPT !.handle = FALSE, !.weak = FALSE,
                            !.wrapping = None]
        pl1 == IF wr.wrapping # None
                 THEN [RcRelease(pl, wr.wrapping) EXCEPT
                         ![wr.wrapping].cbRel = @ + 1]
                 ELSE pl
        global_dropped == [taken EXCEPT !.strong = @ - 1]
    IN RcReleaseWrapper(global_dropped, ob, pl1, iso)

\* ---- engine values and the call in progress ----

\* An engine value has a kind, a small integer v (the length of a string, the
\* truth of a boolean) and parts x (the double of a number, the elements of
\* an array, the properties of an object).
Undefined == [kind |-> "undefined", v |-> 0, x |-> <<>>]

Null == [kind |-> "null", v |-> 0, x |-> <<>>]

\* the string of n characters
Str(n) == [kind |-> "string", v |-> n, x |-> <<>>]

\* the Number that is the double f
Num(f) == [kind |-> "number", v |-> 0, x |-> <<f>>]

Boolean(b) == [kind |-> "boolean", v |-> b, x |-> <<>>]

\* a ReturnValue nothing was set on
Unset == [kind |-> "unset", v |-> 0, x |-> <<>>]

\* A double: finite, NaN or an infinity. A finite one is a sign, an integer
\* part of three limbs of 24 bits (l2 the highest) and, when half is set, a
\* fraction of one half.
Limb == 16777216

F64(c, s, a2, a1, a0, h) ==
  [cls |-> c, neg |-> s, l2 |-> a2, l1 |-> a1, l0 |-> a0, half |-> h]

\* the double of a small natural number
Small(n) == F64("fin", FALSE, 0, 0, n, FALSE)

NaN == F64("nan", FALSE, 0, 0, 0, FALSE)

Infinity(s) == F64("inf", s, 0, 0, 0, FALSE)

\* an integer of any of the integer types: a sign and three limbs
IntOf(s, a2, a1, a0) == [neg |-> s, l2 |-> a2, l1 |-> a1, l0 |-> a0]

RECURSIVE Pow2(_)
Pow2(k) == IF k = 0 THEN 1 ELSE 2 * Pow2(k - 1)

RECURSIVE BitLen(_)
BitLen(n) == IF n = 0 THEN 0 ELSE 1 + BitLen(n \div 2)

\* the magnitude 2^k, for k < 72
Pow2Mag(k) ==
  [l2 |-> IF k >= 48 THEN Pow2(k - 48) ELSE 0,
   l1 |-> IF k >= 24 /\ k < 48 THEN Pow2(k - 24) ELSE 0,
   l0 |-> IF k < 24 THEN Pow2(k) ELSE 0]

\* the magnitude 2^k - 1, for 0 < k < 72
Pow2Less1(k) ==
  [l2 |-> IF k >= 48 THEN Pow2(k - 48) - 1 ELSE 0,
   l1 |-> IF k >= 48 THEN Limb - 1
          ELSE IF k >= 24 THEN Pow2(k - 24) - 1 ELSE 0,
   l0 |-> IF k >= 24 THEN Limb - 1 ELSE Pow2(k) - 1]

\* magnitude a is below magnitude b
MagLess(a, b) ==
  \/ a.l2 < b.l2
  \/ a.l2 = b.l2 /\ a.l1 < b.l1
  \/ a.l2 = b.l2 /\ a.l1 = b.l1 /\ a.l0 < b.l0

\* a cast of an integer x that keeps the low 48 bits of its magnitude
int_as_f64_low48(x) == F64("fin", x.neg, 0, x.l1, x.l0, FALSE)

\* `x as f64` of an integer x: the nearest double, a tie going to the even
\* one; a magnitude below 2^53 is a double already
int_as_f64(x) ==
  IF x.l2 < Pow2(5) THEN F64("fin", x.neg, x.l2, x.l1, x.l0, FALSE)
  ELSE LET k == BitLen(x.l2) - 5
           r == x.l0 % Pow2(k)
           odd == (x.l0 \div Pow2(k)) % 2 = 1
           up == r > Pow2(k - 1) \/ (r = Pow2(k - 1) /\ odd)
           a0 == x.l0 - r + (IF up THEN Pow2(k) ELSE 0)
           c0 == IF a0 = Limb THEN 1 ELSE 0
           a1 == x.l1 + c0
           c1 == IF a1 = Limb THEN 1 ELSE 0
       IN F64("fin", x.neg, x.l2 + c1, a1 % Limb, a0 % Limb, FALSE)

\* magnitude m modulo 2^w, for w 32 or 64
ModPow2(m, w) ==
  [l2 |-> IF w = 64 THEN m.l2 % Pow2(16) ELSE 0,
   l1 |-> IF w = 64 THEN m.l1 ELSE m.l1 % Pow2(8),
   l0 |-> m.l0]

\* 2^w - m, for a magnitude m with 0 < m < 2^w
Compl(m, w) ==
  LET b0 == IF m.l0 = 0 THEN 0 ELSE 1
      b1 == IF m.l1 + b0 = 0 THEN 0 ELSE 1
  IN [l2 |-> IF w = 64 THEN (Pow2(16) - m.l2 - b1) % Pow2(16) ELSE 0,
      l1 |-> IF w = 64 THEN (Limb - m.l1 - b0) % Limb
             ELSE (Pow2(8) - m.l1 - b0) % Pow2(8),
      l0 |-> (Limb - m.l0) % Limb]

\* a cast of a double f to an integer type of w bits that wraps: the
\* fraction is dropped and the integer is reduced modulo 2^w into the range
\* of the type; NaN and the infinities give 0
f64_as_int_wrapping(f, w, signed) ==
  LET zero == IntOf(FALSE, 0, 0, 0)
      r == ModPow2(f, w)
      u == IF f.neg THEN Compl(r, w) ELSE r
  IN IF f.cls # "fin" \/ (r.l2 = 0 /\ r.l1 = 0 /\ r.l0 = 0) THEN zero
     ELSE IF signed /\ ~MagLess(u, Pow2Mag(w - 1))
       THEN LET c == Compl(u, w) IN IntOf(TRUE, c.l2, c.l1, c.l0)
     ELSE IntOf(FALSE, u.l2, u.l1, u.l0)

\* `f as iN` / `f as uN` of a double f for a type of w bits: NaN gives 0, the
\* fraction is dropped, a value out of the range gives the nearest bound
f64_as_int(f, w, signed) ==
  LET top == IF signed THEN Pow2Less1(w - 1) ELSE Pow2Less1(w)
      low == IF signed THEN Pow2Mag(w - 1) ELSE Pow2Mag(0)
      zero == IntOf(FALSE, 0, 0, 0)
  IN CASE f.cls = "nan" -> zero
       [] f.cls = "inf" /\ ~f.neg -> IntOf(FALSE, top.l2, top.l1, top.l0)
       [] f.cls = "inf" /\ f.neg ->
            IF signed THEN IntOf(TRUE, low.l2, low.l1, low.l0) ELSE zero
       [] f.cls = "fin" /\ f.l2 = 0 /\ f.l1 = 0 /\ f.l0 = 0 -> zero
       [] f.cls = "fin" /\ ~f.neg ->
            IF MagLess(top, f) THEN IntOf(FALSE, top.l2, top.l1, top.l0)
            ELSE IntOf(FALSE, f.l2, f.l1, f.l0)
       [] f.cls = "fin" /\ f.neg ->
            IF ~signed THEN zero
            ELSE IF MagLess(low, f) THEN IntOf(TRUE, low.l2, low.l1, low.l0)
            ELSE IntOf(TRUE, f.l2, f.l1, f.l0)

NoSig == [this |-> 0, mutable |-> FALSE, scoped |-> FALSE, params |-> <<>>,
          ret |-> [c |-> "none", a |-> <<>>]]

IdleCall ==
  [pc |-> "idle", sig |-> NoSig, args |-> <<>>, this |-> NoObject, i |-> 0,
   decoded |-> <<>>, thrown |-> <<>>, rv |-> Unset, bodyRan |-> FALSE,
   thisRef |-> None, returned |-> [kind |-> "unit", v |-> 0, x |-> <<>>],
   pre |-> <<>>, outer |-> <<>>, nested |-> 0]

\* no conversion in progress
IdleConv == [pc |-> "idle"]

\* ---- the state machine ----

Init ==
  /\ isolateAlive = TRUE
  /\ wrapper = [w \in Wrappers |-> NoWrapper]
  /\ object = [w \in Wrappers |-> NoObject]
  /\ payload = [p \in Payloads |-> NoPayload]
  /\ sharedRefs = [p \in Payloads |-> 0]
  /\ nextPayload = 1
  /\ panicked = FALSE
  /\ lastOp = Op("init", 0, "unit", None)
  /\ call = IdleCall
  /\ conv = IdleConv

\* Global::set_weakable: the Global keeps the Rc it is given.
Global_set_weakable(wr) == [wr EXCEPT !.strong = @ + 1]

\* ObjectWrap::new: the internal fields of the object after the two
\* set_internal_field_ptr calls
new_object(t, wrap) ==
  [count |-> 2, slot0 |-> type_id_to_u64(t), slot1 |-> wrap,
   collected |-> FALSE]

\* ObjectWrap::new: the internal state, handed to the Global by
\* set_weakable, with the Global then stored in handle
new_wrapper(t, wrap) ==
  LET internal == [created |-> TRUE, ty |-> t, handle |-> FALSE,
                   weak |-> FALSE, wrapping |-> wrap,
                   v8_reference |-> FALSE, strong |-> 1,
                   dropped |-> FALSE, clones |-> 1]
      weakable == Global_set_weakable(internal)
  IN [weakable EXCEPT !.handle = TRUE]

\* new without the call of set_weakable
new_without_weakable(w, t, v) ==
  /\ ~panicked /\ isolateAlive
  /\ ~wrapper[w].created
  /\ nextPayload <= MaxPayloads
  /\ LET wrap == nextPayload
         internal == [created |-> TRUE, ty |-> t, handle |-> TRUE,
                      weak |-> FALSE, wrapping |-> wrap,
                      v8_reference |-> FALSE, strong |-> 1,
                      dropped |-> FALSE, clones |-> 1]
     IN /\ payload' = [payload EXCEPT ![wrap] = FreshPayload(v)]
        /\ object' = [object EXCEPT ![w] =
                        [count |-> 2, slot0 |-> type_id_to_u64(t),
                         slot1 |-> wrap, collected |-> FALSE]]
        /\ wrapper' = [wrapper EXCEPT ![w] = internal]
        /\ nextPayload' = nextPayload + 1
        /\ lastOp' = Op("new", w, "some", wrap)
  /\ UNCHANGED <<isolateAlive, sharedRefs, panicked>>
  /\ UNCHANGED <<call, conv>>

\* ObjectWrap::new on a fresh object with two internal fields
new(w, t, v) ==
  /\ ~panicked /\ isolateAlive
  /\ ~wrapper[w].created
  /\ nextPayload <= MaxPayloads
  /\ LET wrap == nextPayload
     IN /\ payload' = [payload EXCEPT ![wrap] = FreshPayload(v)]
        /\ object' = [object EXCEPT ![w] = new_object(t, wrap)]
        /\ wrapper' = [wrapper EXCEPT ![w] = new_wrapper(t, wrap)]
        /\ nextPayload' = nextPayload + 1
        /\ lastOp' = Op("new", w, "some", wrap)
  /\ UNCHANGED <<isolateAlive, sharedRefs, panicked>>
  /\ UNCHANGED <<call, conv>>

\* ObjectWrap::<t>::from_object on the engine object of wrapper w
from_object(w, t) ==
  /\ ~panicked /\ isolateAlive
  /\ wrapper[w].created /\ ~object[w].collected
  /\ LET p == from_object_result(object[w], t)
     IN /\ p # None => RefsHeld < MaxRefs
        /\ payload' = IF p # None THEN RcClone(payload, p) ELSE payload
        /\ sharedRefs' = IF p # None
                           THEN [sharedRefs EXCEPT ![p] = @ + 1]
                           ELSE sharedRefs
        /\ lastOp' = OpOn("from_object", w, t, Opt(p), p, object[w])
  /\ UNCHANGED <<isolateAlive, wrapper, object, nextPayload, panicked>>
  /\ UNCHANGED <<call, conv>>

\* ObjectWrap::<t>::from_object on an engine object that no wrapper was
\* created on: c internal fields, s0 in the first one
from_object_plain(c, s0, t) ==
  /\ ~panicked /\ isolateAlive
  /\ LET ob == [count |-> c, slot0 |-> s0, slot1 |-> None,
                collected |-> FALSE]
         p == from_object_result(ob, t)
     IN /\ p # None => RefsHeld < MaxRefs
        /\ payload' = IF p # None THEN RcClone(payload, p) ELSE payload
        /\ sharedRefs' = IF p # None
                           THEN [sharedRefs EXCEPT ![p] = @ + 1]
                           ELSE sharedRefs
        /\ lastOp' = OpOn("from_object", 0, t, Opt(p), p, ob)
  /\ UNCHANGED <<isolateAlive, wrapper, object, nextPayload, panicked>>
  /\ UNCHANGED <<call, conv>>

\* ObjectWrap::get
get(w) ==
  /\ ~panicked /\ isolateAlive
  /\ wrapper[w].clones > 0
  /\ lastOp' = Op("get", w, get_result(wrapper[w]), None)
  /\ UNCHANGED <<isolateAlive, wrapper, object, payload, sharedRefs,
                 nextPayload, panicked>>
  /\ UNCHANGED <<call, conv>>

\* unwrap that hands out the wrapper's own count instead of a clone
unwrap_moves(w) ==
  /\ ~panicked /\ isolateAlive
  /\ wrapper[w].clones > 0
  /\ LET p == unwrap_result(wrapper[w], object[w])
     IN /\ p # None => RefsHeld < MaxRefs
        /\ sharedRefs' = IF p # None
                           THEN [sharedRefs EXCEPT ![p] = @ + 1]
                           ELSE sharedRefs
        /\ lastOp' = Op("unwrap", w, Opt(p), p)
  /\ UNCHANGED <<isolateAlive, wrapper, object, payload, nextPayload,
                 panicked>>
  /\ UNCHANGED <<call, conv>>

\* ObjectWrap::unwrap
unwrap(w) ==
  /\ ~panicked /\ isolateAlive
  /\ wrapper[w].clones > 0
  /\ LET p == unwrap_result(wrapper[w], object[w])
     IN /\ p # None => RefsHeld < MaxRefs
        /\ payload' = IF p # None THEN RcClone(payload, p) ELSE payload
        /\ sharedRefs' = IF p # None
                           THEN [sharedRefs EXCEPT ![p] = @ + 1]
                           ELSE sharedRefs
        /\ lastOp' = Op("unwrap", w, Opt(p), p)
  /\ UNCHANGED <<isolateAlive, wrapper, object, nextPayload, panicked>>
  /\ UNCHANGED <<call, conv>>

\* swap that stores the new pointer in slot 1 and not in wrapping
swap_wrapping_not_set(w, v) ==
  /\ ~panicked /\ isolateAlive
  /\ wrapper[w].clones > 0
  /\ IF ~wrapper[w].handle \/ object[w].count # 2
       THEN /\ lastOp' = Op("swap", w, "none", None)
            /\ UNCHANGED <<wrapper, object, payload, sharedRefs, nextPayload>>
       ELSE /\ nextPayload <= MaxPayloads
            /\ RefsHeld < MaxRefs
            /\ LET wrapped == object[w].slot1
                   new_ptr == nextPayload
               IN /\ payload' = [payload EXCEPT ![new_ptr] = FreshPayload(v)]
                  /\ wrapper' = wrapper
                  /\ object' = [object EXCEPT ![w].slot1 = new_ptr]
                  /\ sharedRefs' = [sharedRefs EXCEPT ![wrapped] = @ + 1]
                  /\ nextPayload' = nextPayload + 1
                  /\ lastOp' = Op("swap", w, "some", wrapped)
  /\ UNCHANGED <<isolateAlive, panicked>>
  /\ UNCHANGED <<call, conv>>

\* swap that does not store the new pointer in slot 1
swap_slot_not_set(w, v) ==
  /\ ~panicked /\ isolateAlive
  /\ wrapper[w].clones > 0
  /\ IF ~wrapper[w].handle \/ object[w].count # 2
       THEN /\ lastOp' = Op("swap", w, "none", None)
            /\ UNCHANGED <<wrapper, object, payload, sharedRefs, nextPayload>>
       ELSE /\ nextPayload <= MaxPayloads
            /\ RefsHeld < MaxRefs
            /\ LET wrapped == object[w].slot1
                   new_ptr == nextPayload
               IN /\ payload' = [payload EXCEPT ![new_ptr] = FreshPayload(v)]
                  /\ wrapper' = [wrapper EXCEPT ![w].wrapping = new_ptr]
                  /\ object' = object
                  /\ sharedRefs' = [sharedRefs EXCEPT ![wrapped] = @ + 1]
                  /\ nextPayload' = nextPayload + 1
                  /\ lastOp' = Op("swap", w, "some", wrapped)
  /\ UNCHANGED <<isolateAlive, panicked>>
  /\ UNCHANGED <<call, conv>>

\* swap that drops the old payload's count and still returns it
swap_releases_old(w, v) ==
  /\ ~panicked /\ isolateAlive
  /\ wrapper[w].clones > 0
  /\ IF ~wrapper[w].handle \/ object[w].count # 2
       THEN /\ lastOp' = Op("swap", w, "none", None)
            /\ UNCHANGED <<wrapper, object, payload, sharedRefs, nextPayload>>
       ELSE /\ nextPayload <= MaxPayloads
            /\ RefsHeld < MaxRefs
            /\ LET wrapped == object[w].slot1
                   new_ptr == nextPayload
               IN /\ payload' = [RcRelease(payload, wrapped) EXCEPT
                                   ![new_ptr] = FreshPayload(v)]
                  /\ wrapper' = [wrapper EXCEPT ![w].wrapping = new_ptr]
                  /\ object' = [object EXCEPT ![w].slot1 = new_ptr]
                  /\ sharedRefs' = [sharedRefs EXCEPT ![wrapped] = @ + 1]
                  /\ nextPayload' = nextPayload + 1
                  /\ lastOp' = Op("swap", w, "some", wrapped)
  /\ UNCHANGED <<isolateAlive, panicked>>
  /\ UNCHANGED <<call, conv>>

\* ObjectWrap::swap
swap(w, v) ==
  /\ ~panicked /\ isolateAlive
  /\ wrapper[w].clones > 0
  /\ IF ~wrapper[w].handle \/ object[w].count # 2
       THEN /\ lastOp' = Op("swap", w, "none", None)
            /\ UNCHANGED <<wrapper, object, payload, sharedRefs, nextPayload>>
       ELSE /\ nextPayload <= MaxPayloads
            /\ RefsHeld < MaxRefs
            /\ LET wrapped == object[w].slot1
                   new_ptr == nextPayload
               IN /\ payload' = [payload EXCEPT ![new_ptr] = FreshPayload(v)]
                  /\ wrapper' = [wrapper EXCEPT ![w].wrapping = new_ptr]
                  /\ object' = [object EXCEPT ![w].slot1 = new_ptr]
                  /\ sharedRefs' = [sharedRefs EXCEPT ![wrapped] = @ + 1]
                  /\ nextPayload' = nextPayload + 1
                  /\ lastOp' = Op("swap", w, "some", wrapped)
  /\ UNCHANGED <<isolateAlive, panicked>>
  /\ UNCHANGED <<call, conv>>

\* make_weak that does not look at the handle
make_weak_unchecked(w) ==
  /\ ~panicked /\ isolateAlive
  /\ wrapper[w].clones > 0
  /\ wrapper' = [wrapper EXCEPT ![w] = Global_set_weak(@)]
  /\ panicked' = (~Global_is_weak(wrapper[w])
                    /\ Weakable_get_panics(wrapper[w]))
  /\ lastOp' = Op("make_weak", w, "unit", None)
  /\ UNCHANGED <<isolateAlive, object, payload, sharedRefs, nextPayload>>
  /\ UNCHANGED <<call, conv>>

\* ObjectWrap::make_weak
make_weak(w) ==
  /\ ~panicked /\ isolateAlive
  /\ wrapper[w].clones > 0
  /\ IF wrapper[w].handle
       THEN /\ wrapper' = [wrapper EXCEPT ![w] = Global_set_weak(@)]
            /\ panicked' = (~Global_is_weak(wrapper[w])
                               /\ Weakable_get_panics(wrapper[w]))
       ELSE UNCHANGED <<wrapper, panicked>>
  /\ lastOp' = Op("make_weak", w, "unit", None)
  /\ UNCHANGED <<isolateAlive, object, payload, sharedRefs, nextPayload>>
  /\ UNCHANGED <<call, conv>>

\* ObjectWrap::is_weak
is_weak(w) ==
  /\ ~panicked /\ isolateAlive
  /\ wrapper[w].clones > 0
  /\ lastOp' = Op("is_weak", w, Bool(is_weak_result(wrapper[w])), None)
  /\ UNCHANGED <<isolateAlive, wrapper, object, payload, sharedRefs,
                 nextPayload, panicked>>
  /\ UNCHANGED <<call, conv>>

\* clear_weak that never reaches Global::clear_weak
clear_weak_skipped(w) ==
  /\ ~panicked /\ isolateAlive
  /\ wrapper[w].clones > 0
  /\ lastOp' = Op("clear_weak", w, "unit", None)
  /\ UNCHANGED <<isolateAlive, wrapper, object, payload, sharedRefs,
                 nextPayload, panicked>>
  /\ UNCHANGED <<call, conv>>

\* ObjectWrap::clear_weak
clear_weak(w) ==
  /\ ~panicked /\ isolateAlive
  /\ wrapper[w].clones > 0
  /\ IF wrapper[w].handle
       THEN /\ wrapper' = [wrapper EXCEPT ![w] = Global_clear_weak(@)]
            /\ panicked' = (Global_is_weak(wrapper[w])
                               /\ Weakable_clear_panics(wrapper[w]))
       ELSE UNCHANGED <<wrapper, panicked>>
  /\ lastOp' = Op("clear_weak", w, "unit", None)
  /\ UNCHANGED <<isolateAlive, object, payload, sharedRefs, nextPayload>>
  /\ UNCHANGED <<call, conv>>

\* ObjectWrap::is_empty
is_empty(w) ==
  /\ ~panicked
  /\ wrapper[w].clones > 0
  /\ lastOp' = Op("is_empty", w, Bool(is_empty_result(wrapper[w])), None)
  /\ UNCHANGED <<isolateAlive, wrapper, object, payload, sharedRefs,
                 nextPayload, panicked>>
  /\ UNCHANGED <<call, conv>>

\* #[derive(Clone)] for ObjectWrap: one more handle to the same internal
clone(w) ==
  /\ ~panicked
  /\ wrapper[w].clones > 0
  /\ wrapper[w].clones < MaxClones
  /\ wrapper' = [wrapper EXCEPT ![w].clones = @ + 1, ![w].strong = @ + 1]
  /\ lastOp' = Op("clone", w, "unit", None)
  /\ UNCHANGED <<isolateAlive, object, payload, sharedRefs, nextPayload,
                 panicked>>
  /\ UNCHANGED <<call, conv>>

\* native code drops one ObjectWrap handle
drop_ObjectWrap(w) ==
  /\ ~panicked
  /\ wrapper[w].clones > 0
  /\ LET r == RcReleaseWrapper([wrapper[w] EXCEPT !.clones = @ - 1],
                               object[w], payload, isolateAlive)
     IN /\ wrapper' = [wrapper EXCEPT ![w] = r.wr]
        /\ payload' = r.pl
  /\ lastOp' = Op("drop_ObjectWrap", w, "unit", None)
  /\ UNCHANGED <<isolateAlive, object, sharedRefs, nextPayload, panicked>>
  /\ UNCHANGED <<call, conv>>

\* native code drops one Rc<T> it got from unwrap, from_object or swap
drop_SharedRef(p) ==
  /\ ~panicked
  /\ sharedRefs[p] > 0
  /\ sharedRefs' = [sharedRefs EXCEPT ![p] = @ - 1]
  /\ payload' = RcRelease(payload, p)
  /\ lastOp' = Op("drop_SharedRef", 0, "unit", p)
  /\ UNCHANGED <<isolateAlive, wrapper, object, nextPayload, panicked>>
  /\ UNCHANGED <<call, conv>>

\* the engine's GC reclaims the object behind a weak handle and runs the
\* weak callback registered for it
gc_finalize(w) ==
  /\ ~panicked /\ isolateAlive
  /\ wrapper[w].created /\ ~object[w].collected
  /\ wrapper[w].handle /\ Global_is_weak(wrapper[w])
  /\ LET r == wrap_weak_callback(wrapper[w], object[w], payload,
                                 isolateAlive)
     IN /\ wrapper' = [wrapper EXCEPT ![w] = r.wr]
        /\ payload' = r.pl
  /\ object' = [object EXCEPT ![w].collected = TRUE]
  /\ lastOp' = Op("wrap_weak_callback", w, "unit", wrapper[w].wrapping)
  /\ UNCHANGED <<isolateAlive, sharedRefs, nextPayload, panicked>>
  /\ UNCHANGED <<call, conv>>

\* the isolate is disposed: its heap goes away, no weak callback runs
dispose_isolate ==
  /\ ~panicked /\ isolateAlive
  /\ isolateAlive' = FALSE
  /\ object' = [w \in Wrappers |->
                  IF wrapper[w].created
                    THEN [object[w] EXCEPT !.collected = TRUE]
                    ELSE object[w]]
  /\ lastOp' = Op("dispose_isolate", 0, "unit", None)
  /\ UNCHANGED <<wrapper, payload, sharedRefs, nextPayload, panicked>>
  /\ UNCHANGED <<call, conv>>

Next ==
  \/ \E w \in Wrappers, t \in TypeIds, v \in Values : new(w, t, v)
  \/ \E w \in Wrappers, t \in TypeIds : from_object(w, t)
  \/ \E c \in PlainCounts, s0 \in Tags, t \in TypeIds :
        from_object_plain(c, s0, t)
  \/ \E w \in Wrappers : get(w)
  \/ \E w \in Wrappers : unwrap(w)
  \/ \E w \in Wrappers, v \in Values : swap(w, v)
  \/ \E w \in Wrappers : make_weak(w)
  \/ \E w \in Wrappers : is_weak(w)
  \/ \E w \in Wrappers : clear_weak(w)
  \/ \E w \in Wrappers : is_empty(w)
  \/ \E w \in Wrappers : clone(w)
  \/ \E w \in Wrappers : drop_ObjectWrap(w)
  \/ \E p \in Payloads : drop_SharedRef(p)
  \/ \E w \in Wrappers : gc_finalize(w)
  \/ dispose_isolate

Spec == Init /\ [][Next]_vars

TypeOK ==
  /\ isolateAlive \in BOOLEAN
  /\ panicked \in BOOLEAN
  /\ nextPayload \in 1..(MaxPayloads + 1)
  /\ \A p \in Payloads : sharedRefs[p] \in 0..MaxRefs

\* ---- the three states of a wrapper ----

LiveStrong(wr) == wr.created /\ wr.handle /\ ~wr.weak

LiveWeak(wr) == wr.created /\ wr.handle /\ wr.weak

Empty(wr) == wr.created /\ ~wr.handle

\* ---- properties ----

\* C1: a step of the finalization callback starts from a Live-Weak wrapper
\* and leaves it Empty: unwrap and get return absent, is_empty is true, the
\* payload's count is one less than before, and the payload is destroyed
\* exactly when that count is zero.
C1_FinalizationEmpties ==
  [][lastOp'.op = "wrap_weak_callback" =>
       LET w == lastOp'.w
           p == object[w].slot1
       IN /\ LiveWeak(wrapper[w])
          /\ unwrap_result(wrapper'[w], object'[w]) = None
          /\ get_result(wrapper'[w]) = "none"
          /\ is_empty_result(wrapper'[w])
          /\ p # None
          /\ payload'[p].rc = payload[p].rc - 1
          /\ (~payload'[p].live <=> payload'[p].rc = 0)]_vars

\* the callback has run while native code still held a SharedRef
C1_Witness ==
  /\ lastOp.op = "wrap_weak_callback"
  /\ Empty(wrapper[lastOp.w])
  /\ payload[lastOp.p].rc = 1 /\ payload[lastOp.p].live

\* C2: whenever the handle of a wrapper is set, the payload in slot 1 of its
\* object has a reference count of at least one, and one more than the
\* SharedRefs handed out (the wrapper's own share).
C2_PayloadKeptAlive ==
  \A w \in Wrappers :
     wrapper[w].handle =>
       /\ object[w].slot1 # None
       /\ payload[object[w].slot1].rc >= 1
       /\ payload[object[w].slot1].live
       /\ payload[object[w].slot1].rc > sharedRefs[object[w].slot1]

\* a swapped wrapper nobody holds any more, all SharedRefs dropped
C2_Witness ==
  \E w \in Wrappers :
     /\ wrapper[w].handle /\ wrapper[w].clones = 0
     /\ object[w].slot1 > 1
     /\ RefsHeld = 0

\* C3: the wrapper's share of a payload is released at most once, by the
\* callback or by the destructor, never by both, and no count goes below
\* zero.
C3_ShareReleasedOnce ==
  \A p \in Payloads :
     /\ payload[p].cbRel + payload[p].dropRel <= 1
     /\ payload[p].rc >= 0

\* the callback released the payload and the destructor has run as well
C3_Witness ==
  \E w \in Wrappers, p \in Payloads :
     /\ wrapper[w].dropped
     /\ object[w].slot1 = p
     /\ payload[p].cbRel = 1

\* C4: new yields Live-Strong; make_weak takes Live-Strong to Live-Weak;
\* clear_weak takes Live-Weak to Live-Strong; a Live-Strong wrapper does not
\* become Empty in one step, and the callback runs on Live-Weak only.
C4_WeakStrongTransitions ==
  [][\A w \in Wrappers :
       /\ (lastOp'.op = "new" /\ lastOp'.w = w) =>
             /\ LiveStrong(wrapper'[w])
             /\ ~is_weak_result(wrapper'[w])
             /\ ~is_empty_result(wrapper'[w])
       /\ (lastOp'.op = "make_weak" /\ lastOp'.w = w
             /\ LiveStrong(wrapper[w])) => LiveWeak(wrapper'[w])
       /\ (lastOp'.op = "clear_weak" /\ lastOp'.w = w
             /\ LiveWeak(wrapper[w])) => LiveStrong(wrapper'[w])
       /\ (lastOp'.op = "wrap_weak_callback" /\ lastOp'.w = w) =>
             LiveWeak(wrapper[w])
       /\ LiveStrong(wrapper[w]) => ~Empty(wrapper'[w])]_vars

\* a wrapper that went weak and was made strong again
C4_Witness ==
  /\ lastOp.op = "clear_weak"
  /\ LiveStrong(wrapper[lastOp.w])
  /\ wrapper[lastOp.w].clones = 2
  /\ RefsHeld = 1

\* C5: a successful unwrap or from_object adds exactly one to the count of
\* the payload in slot 1 and changes nothing else of the payloads, the
\* wrappers and the engine objects; dropping a SharedRef takes exactly one
\* off again.
C5_UnwrapFrame ==
  [][/\ (lastOp'.op \in {"unwrap", "from_object"} /\ lastOp'.res = "some") =>
          /\ lastOp'.w # 0 => lastOp'.p = object[lastOp'.w].slot1
          /\ payload' = [payload EXCEPT ![lastOp'.p].rc = @ + 1]
          /\ sharedRefs' = [sharedRefs EXCEPT ![lastOp'.p] = @ + 1]
          /\ wrapper' = wrapper
          /\ object' = object
     /\ lastOp'.op = "drop_SharedRef" =>
          /\ payload'[lastOp'.p].rc = payload[lastOp'.p].rc - 1
          /\ \A q \in Payloads \ {lastOp'.p} : payload'[q] = payload[q]
          /\ wrapper' = wrapper
          /\ object' = object]_vars

\* from_object succeeded while another SharedRef was already out
C5_Witness ==
  /\ lastOp.op = "from_object" /\ lastOp.res = "some"
  /\ payload[lastOp.p].rc = 3
  /\ LiveWeak(wrapper[lastOp.w])

\* C6: a successful swap returns the payload P1 that was in slot 1, puts a
\* new payload P2 there that unwrap and from_object now yield, P2 has count
\* one, and P1 (count, value, liveness) is as it was before the swap.
C6_SwapKeepsOld ==
  [][(lastOp'.op = "swap" /\ lastOp'.res = "some") =>
       LET w == lastOp'.w
           p1 == object[w].slot1
           p2 == object'[w].slot1
       IN /\ lastOp'.p = p1
          /\ p2 # p1 /\ p2 # None
          /\ ~payload[p2].live
          /\ unwrap_result(wrapper'[w], object'[w]) = p2
          /\ from_object_result(object'[w], wrapper'[w].ty) = p2
          /\ payload'[p2].rc = 1 /\ payload'[p2].live
          /\ payload[p1].live
          /\ payload'[p1] = payload[p1]
          /\ sharedRefs'[p1] = sharedRefs[p1] + 1]_vars

\* a swap while a SharedRef to the old payload was held
C6_Witness ==
  /\ lastOp.op = "swap" /\ lastOp.res = "some"
  /\ sharedRefs[lastOp.p] = 2
  /\ payload[lastOp.p].rc = 2

\* C7: from_object for type t on an object whose internal-field count is not
\* two, or whose slot 0 is not t's tag (so in particular on the object of a
\* wrapper for another type with another tag), returns absent and leaves
\* every reference count alone.
C7_TagMismatchAbsent ==
  [][(/\ lastOp'.op = "from_object"
      /\ \/ lastOp'.ob.count # 2
         \/ lastOp'.ob.slot0 # lastOp'.t - (lastOp'.t % 2)
         \/ /\ lastOp'.w # 0
            /\ wrapper[lastOp'.w].ty - (wrapper[lastOp'.w].ty % 2)
                 # lastOp'.t - (lastOp'.t % 2)) =>
       /\ lastOp'.res = "none"
       /\ payload' = payload
       /\ sharedRefs' = sharedRefs]_vars

\* from_object asked for another type than the live wrapper's
C7_Witness ==
  /\ lastOp.op = "from_object" /\ lastOp.w # 0
  /\ lastOp.ob.count = 2
  /\ lastOp.t # wrapper[lastOp.w].ty
  /\ wrapper[lastOp.w].handle
  /\ lastOp.res = "none"

\* C8: an Empty wrapper stays Empty, and on it get, unwrap and swap return
\* absent without touching any payload, is_weak returns false, is_empty
\* returns true, and make_weak and clear_weak change nothing.
C8_EmptyAbsorbing ==
  [][\A w \in Wrappers :
       Empty(wrapper[w]) =>
         /\ Empty(wrapper'[w])
         /\ wrapper'[w].wrapping = wrapper[w].wrapping
         /\ object'[w].slot1 = object[w].slot1
         /\ (lastOp'.w = w /\ lastOp'.op \in {"get", "unwrap", "swap"}) =>
               /\ lastOp'.res = "none"
               /\ UNCHANGED <<wrapper, object, payload, sharedRefs,
                              nextPayload>>
         /\ (lastOp'.w = w /\ lastOp'.op = "is_weak") =>
               lastOp'.res = "false"
         /\ (lastOp'.w = w /\ lastOp'.op = "is_empty") =>
               lastOp'.res = "true"
         /\ (lastOp'.w = w /\ lastOp'.op \in {"make_weak", "clear_weak"}) =>
               UNCHANGED <<wrapper, object, payload, sharedRefs,
                           nextPayload, panicked>>]_vars

\* swap was tried on an Empty wrapper
C8_Witness ==
  /\ lastOp.op = "swap" /\ lastOp.res = "none"
  /\ Empty(wrapper[lastOp.w])
  /\ nextPayload <= MaxPayloads

\* C9: the internal state of a wrapper whose handle is set is not destroyed:
\* it holds at least one strong count besides those of the ObjectWrap
\* handles, and the only step that destroys an internal state whose handle
\* was set is the finalization callback.
C9_NotDroppedWhileHandle ==
  [][\A w \in Wrappers :
       /\ wrapper'[w].handle =>
             /\ ~wrapper'[w].dropped
             /\ wrapper'[w].strong > wrapper'[w].clones
       /\ (wrapper[w].handle /\ wrapper'[w].dropped) =>
             lastOp'.op = "wrap_weak_callback"]_vars

\* every ObjectWrap handle is gone, the handle is still set
C9_Witness ==
  \E w \in Wrappers :
     /\ wrapper[w].handle /\ wrapper[w].clones = 0
     /\ ~wrapper[w].dropped
     /\ lastOp.op = "drop_ObjectWrap"

\* ---- Rust text and its Debug formatting ----

\* The text of a String is a sequence of pieces: a piece is a double quote,
\* a backslash, or a run of characters Debug prints as they are.
\* The String a script string of n characters decodes to.
chars(n) == [i \in 1..n |-> "a"]

\* <str as Debug>: a double quote and a backslash get a backslash in front
RECURSIVE escape_debug(_)
escape_debug(s) ==
  IF s = <<>> THEN <<>>
  ELSE (IF Head(s) \in {"\"", "\\"} THEN <<"\\", Head(s)>> ELSE <<Head(s)>>)
         \o escape_debug(Tail(s))

\* format!("{:?}", e) of a String e: the escaped text between double quotes
DebugFmt(e) == <<"\"">> \o escape_debug(e) \o <<"\"">>

\* ---- FFICompat::from_value / to_value ----

\* a Rust type: its constructor and the types it is applied to
Ty(c, a) == [c |-> c, a |-> a]

TString == Ty("String", <<>>)

Tf64 == Ty("f64", <<>>)

Tbool == Ty("bool", <<>>)

TUnit == Ty("()", <<>>)

TLocal == Ty("Local<Value>", <<>>)

TOption(t) == Ty("Option", <<t>>)

TResult(t, e) == Ty("Result", <<t, e>>)

\* a native value: its kind, a small integer v (the length of a String, the
\* truth of a bool) and parts x (the inner value of Some, Ok and Err, the
\* double of an f64, the elements of a Vec and of a tuple)
Native(k, n) == [kind |-> k, v |-> n, x |-> <<>>]

Wrap(k, inner) == [kind |-> k, v |-> 0, x |-> <<inner>>]

Some(inner) == Wrap("Some", inner)

NoneValue == Native("None", 0)

\* Result<Self, Self::E> of a conversion; panic: the conversion did not
\* return
Ok(x) == [ok |-> TRUE, val |-> x, err |-> <<>>, panic |-> FALSE]

Err(m) == [ok |-> FALSE, val |-> Native("none", 0), err |-> m, panic |-> FALSE]

Panic == [ok |-> FALSE, val |-> Native("none", 0), err |-> <<>>, panic |-> TRUE]

\* Result::ok
ok(r) == IF r.ok THEN Some(r.val) ELSE NoneValue

\* Result::map_err(|e| format!("{:?}", e))
map_err_debug(r) == IF r.ok \/ r.panic THEN r ELSE Err(DebugFmt(r.err))

\* <E as Debug> of the error of a Result<T, E> a function returns: a String
\* or a u32 below 2^24
DebugNative(e) ==
  IF e.kind = "String" THEN DebugFmt(chars(e.v))
  ELSE <<ToString(e.x[1].l0)>>

\* the integer types: their width and whether they are signed
IntTypes == {"i64", "u64", "i32", "u32"}

Width(c) == IF c \in {"i64", "u64"} THEN 64 ELSE 32

Signed(c) == c \in {"i64", "i32"}

Tint(c) == Ty(c, <<>>)

TVec(t) == Ty("Vec", <<t>>)

\* a tuple type of 2 to 5 slots
TTuple(ts) == Ty("Tuple", ts)

\* an Array of the engine
Arr(elems) == [kind |-> "array", v |-> 0, x |-> elems]

\* a Vec or a tuple with these elements
Elems(k, elems) == [kind |-> k, v |-> 0, x |-> elems]

\* the index of the first result that is not Ok, 0 when all are
first_failure(rs) ==
  IF \A i \in 1..Len(rs) : rs[i].ok THEN 0
  ELSE CHOOSE i \in 1..Len(rs) :
         ~rs[i].ok /\ \A j \in 1..(i - 1) : rs[j].ok

\* the values of results that are all Ok
values_of(rs) == [i \in 1..Len(rs) |-> rs[i].val]

\* ---- the JSON-mappable path ----

\* a property of an engine Object, a field of a struct, an entry of a Map
Prop(n, val) == [name |-> n, val |-> val]

\* an engine Object with these own properties
Obj(props) == [kind |-> "object", v |-> 0, x |-> props]

\* an engine value that is none of Array, Object, String, Number, Boolean,
\* null and undefined
Symbol == [kind |-> "symbol", v |-> 0, x |-> <<>>]

\* a struct that implements FFIObject: its fields, each a name and a type
TStruct(fields) == Ty("struct", fields)

Field(n, t) == Ty(n, <<t>>)

\* serde_json::Value
JNull == [kind |-> "Null", v |-> 0, x |-> <<>>]

JBool(b) == [kind |-> "Bool", v |-> b, x |-> <<>>]

JString(n) == [kind |-> "String", v |-> n, x |-> <<>>]

\* Value::Number of a float and of an integer
JFloat(f) == [kind |-> "Float", v |-> 0, x |-> <<f>>]

JInt(i) == [kind |-> "Int", v |-> 0, x |-> <<i>>]

JArray(elems) == [kind |-> "Array", v |-> 0, x |-> elems]

JObject(entries) == [kind |-> "Object", v |-> 0, x |-> entries]

\* js_value_to_serde that takes a Number that is not finite for null
RECURSIVE js_value_to_serde_lenient(_)
js_value_to_serde_lenient(value) ==
  CASE value.kind = "array" ->
         LET rs == [i \in 1..Len(value.x) |->
                      js_value_to_serde_lenient(value.x[i])]
             k == first_failure(rs)
         IN IF k = 0 THEN Ok(JArray(values_of(rs))) ELSE rs[k]
    [] value.kind = "object" ->
         LET rs == [i \in 1..Len(value.x) |->
                      js_value_to_serde_lenient(value.x[i].val)]
             k == first_failure(rs)
         IN IF k = 0
              THEN Ok(JObject([i \in 1..Len(rs) |->
                                 Prop(value.x[i].name, rs[i].val)]))
              ELSE rs[k]
    [] value.kind = "string" -> Ok(JString(value.v))
    [] value.kind = "number" ->
         IF value.x[1].cls = "fin" THEN Ok(JFloat(value.x[1])) ELSE Ok(JNull)
    [] value.kind = "boolean" -> Ok(JBool(value.v))
    [] value.kind \in {"undefined", "null"} -> Ok(JNull)
    [] OTHER -> Err(<<"unknown js type for jsonification">>)

\* js_value_to_serde; Number::from_f64 is None for a double that is not
\* finite, and the unwrap() of it panics
RECURSIVE js_value_to_serde(_)
js_value_to_serde(value) ==
  CASE value.kind = "array" ->
         LET rs == [i \in 1..Len(value.x) |-> js_value_to_serde(value.x[i])]
             k == first_failure(rs)
         IN IF k = 0 THEN Ok(JArray(values_of(rs))) ELSE rs[k]
    [] value.kind = "object" ->
         LET rs == [i \in 1..Len(value.x) |->
                      js_value_to_serde(value.x[i].val)]
             k == first_failure(rs)
         IN IF k = 0
              THEN Ok(JObject([i \in 1..Len(rs) |->
                                 Prop(value.x[i].name, rs[i].val)]))
              ELSE rs[k]
    [] value.kind = "string" -> Ok(JString(value.v))
    [] value.kind = "number" ->
         IF value.x[1].cls = "fin" THEN Ok(JFloat(value.x[1])) ELSE Panic
    [] value.kind = "boolean" -> Ok(JBool(value.v))
    [] value.kind \in {"undefined", "null"} -> Ok(JNull)
    [] OTHER -> Err(<<"unknown js type for jsonification">>)

\* serde_to_js_value
RECURSIVE serde_to_js_value(_)
serde_to_js_value(j) ==
  CASE j.kind = "Array" ->
         LET rs == [i \in 1..Len(j.x) |-> serde_to_js_value(j.x[i])]
             k == first_failure(rs)
         IN IF k = 0 THEN Ok(Arr(values_of(rs))) ELSE rs[k]
    [] j.kind = "Object" ->
         LET rs == [i \in 1..Len(j.x) |-> serde_to_js_value(j.x[i].val)]
             k == first_failure(rs)
         IN IF k = 0
              THEN Ok(Obj([i \in 1..Len(rs) |->
                             Prop(j.x[i].name, rs[i].val)]))
              ELSE rs[k]
    [] j.kind = "String" -> Ok(Str(j.v))
    [] j.kind = "Float" -> Ok(Num(j.x[1]))
    [] j.kind = "Int" -> Ok(Num(int_as_f64(j.x[1])))
    [] j.kind = "Bool" -> Ok(Boolean(j.v))
    [] j.kind = "Null" -> Ok(Null)

\* format!("{:?}", e) of a serde_json::Error with this message
serde_error(msg) ==
  Err(<<"Error(", "\"">> \o msg \o <<"\"", ", line: 0, column: 0)">>)

\* the entry of this name in a Map, <<>> when there is none
map_get(entries, n) ==
  IF \E i \in 1..Len(entries) : entries[i].name = n
    THEN <<(CHOOSE e \in {entries[i] : i \in 1..Len(entries)} : e.name = n)>>
    ELSE <<>>

\* integer i is a value of the integer type of this width and signedness
fits(i, w, signed) ==
  IF i.neg
    THEN signed /\ ~MagLess(Pow2Mag(w - 1), i)
    ELSE ~MagLess(IF signed THEN Pow2Less1(w - 1) ELSE Pow2Less1(w), i)

\* serde_json::from_value, by the Deserialize that serde derives for a struct
\* and has for String, bool, f64, the integers and Option: an integer does
\* not take a Number that is a float; a struct is read from a Map by the
\* names of its fields and from an Array by their positions
RECURSIVE serde_from_value(_, _)
serde_from_value(ty, j) ==
  CASE ty.c = "String" ->
         IF j.kind = "String" THEN Ok(Native("String", j.v))
         ELSE serde_error(<<"invalid type, expected a string">>)
    [] ty.c = "bool" ->
         IF j.kind = "Bool" THEN Ok(Native("bool", j.v))
         ELSE serde_error(<<"invalid type, expected a boolean">>)
    [] ty.c = "f64" ->
         IF j.kind = "Float" THEN Ok(Wrap("f64", j.x[1]))
         ELSE IF j.kind = "Int" THEN Ok(Wrap("f64", int_as_f64(j.x[1])))
         ELSE serde_error(<<"invalid type, expected f64">>)
    [] ty.c \in IntTypes ->
         IF j.kind = "Int"
           THEN IF fits(j.x[1], Width(ty.c), Signed(ty.c))
                  THEN Ok(Wrap(ty.c, j.x[1]))
                  ELSE serde_error(<<"invalid value, expected ", ty.c>>)
           ELSE IF j.kind = "Float"
             THEN serde_error(<<"invalid type: floating point, expected ",
                                ty.c>>)
           ELSE serde_error(<<"invalid type, expected ", ty.c>>)
    [] ty.c = "Option" ->
         IF j.kind = "Null" THEN Ok(NoneValue)
         ELSE LET r == serde_from_value(ty.a[1], j)
              IN IF r.ok THEN Ok(Some(r.val)) ELSE r
    [] ty.c = "struct" ->
         IF j.kind = "Array"
           THEN IF Len(j.x) # Len(ty.a)
                  THEN serde_error(<<"invalid length">>)
                ELSE LET rs == [i \in 1..Len(ty.a) |->
                                  serde_from_value(ty.a[i].a[1], j.x[i])]
                         k == first_failure(rs)
                     IN IF k = 0
                          THEN Ok(Elems("struct",
                                        [i \in 1..Len(ty.a) |->
                                           Prop(ty.a[i].c, rs[i].val)]))
                          ELSE rs[k]
         ELSE IF j.kind # "Object"
           THEN serde_error(<<"invalid type, expected struct">>)
         ELSE LET n == Len(ty.a)
                  es == [i \in 1..n |-> map_get(j.x, ty.a[i].c)]
                  rs == [i \in 1..n |->
                           IF es[i] # <<>>
                             THEN serde_from_value(ty.a[i].a[1], es[i][1].val)
                           ELSE IF ty.a[i].a[1].c = "Option"
                             THEN Ok(NoneValue)
                           ELSE serde_error(<<"missing field ", ty.a[i].c>>)]
                  k == first_failure(rs)
              IN IF k = 0
                   THEN Ok(Elems("struct",
                                 [i \in 1..n |-> Prop(ty.a[i].c, rs[i].val)]))
                   ELSE rs[k]

\* serde_json::to_value, by the Serialize that serde derives: a double that
\* is not finite becomes null
RECURSIVE serde_to_value(_)
serde_to_value(native) ==
  CASE native.kind = "String" -> Ok(JString(native.v))
    [] native.kind = "bool" -> Ok(JBool(native.v))
    [] native.kind = "f64" ->
         IF native.x[1].cls = "fin" THEN Ok(JFloat(native.x[1]))
         ELSE Ok(JNull)
    [] native.kind \in IntTypes -> Ok(JInt(native.x[1]))
    [] native.kind = "None" -> Ok(JNull)
    [] native.kind = "Some" -> serde_to_value(native.x[1])
    [] native.kind = "struct" ->
         LET rs == [i \in 1..Len(native.x) |->
                      serde_to_value(native.x[i].val)]
         IN Ok(JObject([i \in 1..Len(rs) |->
                          Prop(native.x[i].name, rs[i].val)]))

\* from_value of a T: FFIObject
FFIObject_from_value(ty, value) ==
  LET j == js_value_to_serde(value)
  IN IF j.ok THEN serde_from_value(ty, j.val) ELSE j

\* to_value of a T: FFIObject
FFIObject_to_value(native) ==
  LET j == serde_to_value(native)
  IN IF j.ok THEN serde_to_js_value(j.val) ELSE map_err_debug(j)

\* Option<T>::from_value that hands on the error of T::from_value
Option_from_value_propagates(r) == IF r.ok THEN Ok(Some(r.val)) ELSE r

\* Option<T>::from_value, r the outcome of T::from_value on the value
Option_from_value(r) == IF r.panic THEN Panic ELSE Ok(ok(r))

\* Vec<T>::from_value that refuses what is not an Array
Vec_from_value_strict(value, rs) ==
  IF value.kind # "array"
    THEN Err(<<"invalid type for argument in ffi call, expected array">>)
  ELSE LET k == first_failure(rs)
       IN IF k = 0 THEN Ok(Elems("Vec", values_of(rs))) ELSE rs[k]

\* Vec<T>::from_value, rs the outcomes of T::from_value on the elements
Vec_from_value(value, rs) ==
  IF value.kind # "array" THEN Ok(Elems("Vec", <<>>))
  ELSE LET k == first_failure(rs)
       IN IF k = 0 THEN Ok(Elems("Vec", values_of(rs))) ELSE rs[k]

\* a tuple's from_value that does not look at the length of the Array
Tuple_from_value_any_length(n, value, rs) ==
  IF value.kind # "array" THEN Err(<<"expected array for tuple ffi">>)
  ELSE LET k == first_failure(rs)
       IN IF k = 0 THEN Ok(Elems("Tuple", values_of(rs)))
          ELSE map_err_debug(rs[k])

\* from_value of a tuple of n slots, rs the outcomes of the slot types'
\* from_value on the elements 0..n-1
Tuple_from_value(n, value, rs) ==
  IF value.kind # "array" THEN Err(<<"expected array for tuple ffi">>)
  ELSE IF Len(value.x) # n
    THEN Err(<<"expected ", ToString(n), "-length array for tuple ffi">>)
  ELSE LET k == first_failure(rs)
       IN IF k = 0 THEN Ok(Elems("Tuple", values_of(rs)))
          ELSE map_err_debug(rs[k])

\* a tuple's to_value that builds the Array from the last slot to the first
Tuple_to_value_reversed(rs) ==
  LET k == first_failure(rs)
  IN IF k = 0
       THEN Ok(Arr([i \in 1..Len(rs) |-> rs[Len(rs) + 1 - i].val]))
       ELSE map_err_debug(rs[k])

\* to_value of a tuple, rs the outcomes of the slots' to_value
Tuple_to_value(rs) ==
  LET k == first_failure(rs)
  IN IF k = 0 THEN Ok(Arr(values_of(rs))) ELSE map_err_debug(rs[k])

\* Result<T, E>::from_value that reports an error
Result_from_value_err == Err(<<"not implemented">>)

\* Result<T, E>::from_value: unimplemented!()
Result_from_value == Panic

\* array.get_index(i), undefined past the end
get_index(value, i) ==
  IF i < Len(value.x) THEN value.x[i + 1] ELSE Undefined

\* T::from_value
RECURSIVE from_value(_, _)
from_value(ty, value) ==
  CASE ty.c = "Local<Value>" -> Ok(Wrap("Local", value))
    [] ty.c = "String" ->
         IF value.kind = "string"
           THEN Ok(Native("String", value.v))
           ELSE Err(<<"invalid type for argument in ffi call, expected string">>)
    [] ty.c = "f64" ->
         IF value.kind = "number"
           THEN Ok(Wrap("f64", value.x[1]))
           ELSE Err(<<"invalid type for argument in ffi call, expected f64">>)
    [] ty.c \in IntTypes ->
         LET r == from_value(Tf64, value)
         IN IF r.ok
              THEN Ok(Wrap(ty.c, f64_as_int(r.val.x[1], Width(ty.c),
                                            Signed(ty.c))))
              ELSE r
    [] ty.c = "bool" ->
         IF value.kind = "boolean"
           THEN Ok(Native("bool", value.v))
           ELSE Err(<<"invalid type for argument in ffi call, expected boolean">>)
    [] ty.c = "()" -> Ok(Native("unit", 0))
    [] ty.c = "Option" -> Option_from_value(from_value(ty.a[1], value))
    [] ty.c = "Result" -> Result_from_value
    [] ty.c = "struct" -> FFIObject_from_value(ty, value)
    [] ty.c = "Vec" ->
         Vec_from_value(value,
                        IF value.kind # "array" THEN <<>>
                        ELSE [i \in 1..Len(value.x) |->
                                from_value(ty.a[1], value.x[i])])
    [] ty.c = "Tuple" ->
         Tuple_from_value(Len(ty.a), value,
                          IF value.kind # "array" THEN <<>>
                          ELSE [i \in 1..Len(ty.a) |->
                                  from_value(ty.a[i],
                                             get_index(value, i - 1))])

\* self.to_value
RECURSIVE to_value(_)
to_value(native) ==
  CASE native.kind = "Local" -> Ok(native.x[1])
    [] native.kind = "String" -> Ok(Str(native.v))
    [] native.kind = "f64" -> Ok(Num(native.x[1]))
    [] native.kind \in IntTypes -> Ok(Num(int_as_f64(native.x[1])))
    [] native.kind = "bool" -> Ok(Boolean(native.v))
    [] native.kind = "unit" -> Ok(Undefined)
    [] native.kind = "Some" ->
         LET r == to_value(native.x[1])
         IN IF r.panic THEN Panic ELSE IF r.ok THEN r ELSE Ok(Null)
    [] native.kind = "None" -> Ok(Null)
    [] native.kind = "Ok" -> map_err_debug(to_value(native.x[1]))
    [] native.kind = "Err" -> Err(DebugNative(native.x[1]))
    [] native.kind = "Vec" ->
         LET rs == [i \in 1..Len(native.x) |-> to_value(native.x[i])]
             k == first_failure(rs)
         IN IF k = 0 THEN Ok(Arr(values_of(rs))) ELSE rs[k]
    [] native.kind = "Tuple" ->
         Tuple_to_value([i \in 1..Len(native.x) |-> to_value(native.x[i])])
    [] native.kind = "struct" -> FFIObject_to_value(native)

\* parameter types of exposed functions
ArgTypes == {TString, Tf64, Tbool, TOption(TString)}

\* no return type, or one of these return types
RetTypes ==
  {Ty("none", <<>>), TString, TResult(TString, TString),
   TResult(TString, Ty("u32", <<>>))}

\* engine values script passes as arguments
EngineValues == {Undefined, Null, Str(1), Num(Small(7)), Boolean(1)}

\* ---- the adapter generated by #[v8_ffi] ----

RemoveAt(seq, k) == SubSeq(seq, 1, k - 1) \o SubSeq(seq, k + 1, Len(seq))

\* the inputs of the annotated function, as declared
declared_inputs(sig) ==
  (IF sig.this # 0 THEN <<"this">> ELSE <<>>)
    \o (IF sig.scoped THEN <<"scope", "context">> ELSE <<>>)
    \o sig.params

\* the inputs the argument preludes are generated for: inputs.remove(0) for
\* the receiver, inputs.remove(1) and inputs.remove(0) for scope and context
adapter_inputs(sig) ==
  LET unthis == IF sig.this # 0 THEN RemoveAt(declared_inputs(sig), 1)
                ELSE declared_inputs(sig)
  IN IF sig.scoped THEN RemoveAt(RemoveAt(unthis, 2), 1) ELSE unthis

\* __v8_ffi_args.get(i): undefined past the arguments that were passed
args_get(args, i) == IF i < Len(args) THEN args[i + 1] ELSE Undefined

ParamLists == UNION {[1..n -> ArgTypes] : n \in 0..MaxArgs}

ArgLists == UNION {[1..n -> EngineValues] : n \in 0..MaxArgs}

\* declared receiver types: none, the type that is wrapped (2), the type
\* whose Mutex is wrapped (4)
Sigs ==
  {[this |-> th, mutable |-> m, scoped |-> sc, params |-> ps, ret |-> r] :
     th \in {0, 2, 4}, m \in BOOLEAN, sc \in BOOLEAN, ps \in ParamLists,
     r \in RetTypes}

\* leaving the adapter without dropping the Rc<T> and the MutexGuard
adapter_return_leaks(pl, c) == pl

\* leaving the adapter drops its locals: the MutexGuard, then the Rc<T> of
\* the receiver
adapter_return(pl, c) ==
  IF c.thisRef = None THEN pl
  ELSE RcRelease([pl EXCEPT ![c.thisRef].locked =
                               IF c.sig.mutable THEN FALSE ELSE @],
                 c.thisRef)

\* an engine object without internal fields (such as the global object)
PlainObject == [count |-> 0, slot0 |-> 0, slot1 |-> None, collected |-> FALSE]

\* the objects script can call a function on
ThisObjects ==
  {object[w] : w \in {x \in Wrappers : ~object[x].collected}}
    \cup {PlainObject}

\* the engine calls an exposed function with some arguments on some object
call_begin ==
  /\ ~panicked /\ isolateAlive
  /\ call.pc = "idle"
  /\ \E sig \in Sigs, args \in ArgLists, this \in ThisObjects :
        /\ sig.this = 0 => ~sig.mutable
        /\ call' = [IdleCall EXCEPT
                      !.pc = IF sig.this # 0 THEN "this" ELSE "args",
                      !.sig = sig, !.args = args, !.this = this,
                      !.pre = <<wrapper, object, payload, sharedRefs>>]
  /\ UNCHANGED <<isolateAlive, wrapper, object, payload, sharedRefs,
                 nextPayload, panicked, lastOp, conv>>

\* The payload type a mutable receiver of declared type t is looked up as:
\* Mutex<t>.  Type 2, the type that make_object_wrap wrapped in InitCall, is
\* Mutex<4>; the Mutex of any other type is a type of its own.
MutexType(t) == IF t = 4 THEN 2 ELSE 6

\* a receiver looked up as its declared type whether mutable or not
receiver_type_plain(sig) == sig.this

\* the type parameter of the from_object call of the receiver prelude:
\* Rc<Mutex<ty>> for `this: &mut ty`, Rc<ty> for `this: &ty`
receiver_type(sig) ==
  IF sig.mutable THEN MutexType(sig.this) ELSE sig.this

\* the receiver prelude
call_this ==
  /\ call.pc = "this"
  /\ LET p == from_object_result(call.this, receiver_type(call.sig))
     IN IF p = None
          THEN /\ call' = [call EXCEPT !.pc = "done",
                             !.thrown = <<"invalid 'this' for ffi call">>]
               /\ UNCHANGED payload
          ELSE /\ call.sig.mutable => ~payload[p].locked
               /\ payload' = [RcClone(payload, p) EXCEPT ![p].locked =
                                IF call.sig.mutable THEN TRUE ELSE @]
               /\ call' = [call EXCEPT !.pc = "args", !.thisRef = p]
  /\ UNCHANGED <<isolateAlive, wrapper, object, sharedRefs, nextPayload,
                 panicked, lastOp, conv>>

\* an argument prelude that keeps going after it has thrown
call_arg_no_return ==
  /\ call.pc = "args"
  /\ call.i < Len(adapter_inputs(call.sig))
  /\ LET ty == adapter_inputs(call.sig)[call.i + 1]
         arg == args_get(call.args, call.i)
         r == from_value(ty, arg)
         entry == [idx |-> call.i, ty |-> ty, arg |-> arg, ok |-> r.ok,
                   err |-> r.err]
     IN call' = [call EXCEPT !.i = @ + 1,
                   !.decoded = Append(@, entry),
                   !.thrown = IF r.ok THEN @ ELSE DebugFmt(r.err)]
  /\ UNCHANGED <<isolateAlive, wrapper, object, payload, sharedRefs,
                 nextPayload, panicked, lastOp, conv>>

\* the prelude of the next argument
call_arg ==
  /\ call.pc = "args"
  /\ call.i < Len(adapter_inputs(call.sig))
  /\ LET ty == adapter_inputs(call.sig)[call.i + 1]
         arg == args_get(call.args, call.i)
         r == from_value(ty, arg)
         entry == [idx |-> call.i, ty |-> ty, arg |-> arg, ok |-> r.ok,
                   err |-> r.err]
     IN IF r.ok
          THEN /\ call' = [call EXCEPT !.i = @ + 1,
                             !.decoded = Append(@, entry)]
               /\ UNCHANGED payload
          ELSE /\ call' = [call EXCEPT !.pc = "done",
                             !.decoded = Append(@, entry),
                             !.thrown = DebugFmt(r.err),
                             !.thisRef = None]
               /\ payload' = adapter_return(payload, call)
  /\ UNCHANGED <<isolateAlive, wrapper, object, sharedRefs, nextPayload,
                 panicked, lastOp, conv>>

\* the values a function of return type ty can return
Returns(ty) ==
  CASE ty.c = "none" -> {Native("unit", 0)}
    [] ty.c = "String" -> {Native("String", n) : n \in Values}
    [] ty.c = "Result" ->
         {Wrap("Ok", Native("String", n)) : n \in Values}
           \cup {Wrap("Err", IF ty.a[2].c = "String" THEN Native("String", n)
                             ELSE Wrap("u32", IntOf(FALSE, 0, 0, n))) :
                   n \in Values}

\* every prelude is through: the annotated function runs and returns v
call_body(v) ==
  /\ call.pc = "args"
  /\ call.i = Len(adapter_inputs(call.sig))
  /\ v \in Returns(call.sig.ret)
  /\ call' = [call EXCEPT !.pc = "ret", !.bodyRan = TRUE, !.returned = v]
  /\ UNCHANGED <<isolateAlive, wrapper, object, payload, sharedRefs,
                 nextPayload, panicked, lastOp, conv>>

\* a return postlude that lets an Err pass without throwing
call_return_no_throw ==
  /\ call.pc = "ret"
  /\ LET r == to_value(call.returned)
         postlude == call.sig.ret.c # "none"
     IN call' = [call EXCEPT !.pc = "done", !.thisRef = None,
                   !.rv = IF postlude /\ r.ok THEN r.val ELSE @]
  /\ payload' = adapter_return(payload, call)
  /\ UNCHANGED <<isolateAlive, wrapper, object, sharedRefs, nextPayload,
                 panicked, lastOp, conv>>

\* the return postlude, and the return to the engine
call_return ==
  /\ call.pc = "ret"
  /\ LET r == to_value(call.returned)
         postlude == call.sig.ret.c # "none"
     IN call' = [call EXCEPT !.pc = "done", !.thisRef = None,
                   !.rv = IF postlude /\ r.ok THEN r.val ELSE @,
                   !.thrown = IF postlude /\ ~r.ok
                                THEN DebugFmt(r.err) ELSE @]
  /\ payload' = adapter_return(payload, call)
  /\ UNCHANGED <<isolateAlive, wrapper, object, sharedRefs, nextPayload,
                 panicked, lastOp, conv>>

\* script goes on after the call
call_end ==
  /\ call.pc = "done"
  /\ call.outer = <<>>
  /\ call' = IdleCall
  /\ UNCHANGED <<isolateAlive, wrapper, object, payload, sharedRefs,
                 nextPayload, panicked, lastOp, conv>>

\* a wrapper for type 2 has been made by make_object_wrap, nothing else has
\* happened
InitCall ==
  /\ isolateAlive = TRUE
  /\ wrapper = [w \in Wrappers |-> new_wrapper(2, 1)]
  /\ object = [w \in Wrappers |-> new_object(2, 1)]
  /\ payload = [p \in Payloads |->
                  IF p = 1 THEN FreshPayload(1) ELSE NoPayload]
  /\ sharedRefs = [p \in Payloads |-> 0]
  /\ nextPayload = 2
  /\ panicked = FALSE
  /\ lastOp = Op("new", 1, "some", 1)
  /\ call = IdleCall
  /\ conv = IdleConv

\* what a function of some return type can return
NativeReturns == UNION {Returns(ty) : ty \in RetTypes}

NextCall ==
  \/ call_begin
  \/ call_this
  \/ call_arg
  \/ \E v \in NativeReturns : call_body(v)
  \/ call_return
  \/ call_end

SpecCall == InitCall /\ [][NextCall]_vars

\* ---- calls that re-enter script ----

\* The functions script can call here: with or without a receiver, with or
\* without scope and context, with no parameter or one String, no return
\* type.
ReentrySigs ==
  {[this |-> th, mutable |-> m, scoped |-> sc, params |-> ps,
    ret |-> Ty("none", <<>>)] :
     th \in {0, 2, 4}, m \in BOOLEAN, sc \in BOOLEAN,
     ps \in {<<>>, <<TString>>}}

ReentryArgs == {<<>>, <<Str(1)>>}

\* the body of the function of the call in progress is running and has
\* scope and context to run script with
body_runs_script ==
  /\ call.pc = "args"
  /\ call.i = Len(adapter_inputs(call.sig))
  /\ call.sig.scoped
  /\ call.nested < MaxNested
  /\ Len(call.outer) + 1 < MaxDepth

\* The engine calls an exposed function: from script run at top level, or
\* from script that the body of the function in progress runs (run_script);
\* the call in progress then waits for the new one.
call_invoke ==
  /\ ~panicked /\ isolateAlive
  /\ call.pc = "idle" \/ body_runs_script
  /\ \E sig \in ReentrySigs, args \in ReentryArgs, this \in ThisObjects :
        /\ sig.this = 0 => ~sig.mutable
        /\ call' = [IdleCall EXCEPT
                      !.pc = IF sig.this # 0 THEN "this" ELSE "args",
                      !.sig = sig, !.args = args, !.this = this,
                      !.pre = <<wrapper, object, payload, sharedRefs>>,
                      !.outer =
                        IF call.pc = "idle" THEN <<>>
                        ELSE <<[call EXCEPT !.outer = <<>>,
                                            !.nested = @ + 1]>>
                               \o call.outer]
  /\ UNCHANGED <<isolateAlive, wrapper, object, payload, sharedRefs,
                 nextPayload, panicked, lastOp, conv>>

\* The mutable receiver prelude when the Mutex is already locked, which on
\* one thread means by a call that waits for this one: lock() of a Mutex
\* that the thread holds does not return, it deadlocks or panics.
call_this_relock ==
  /\ call.pc = "this"
  /\ call.sig.mutable
  /\ LET p == from_object_result(call.this, receiver_type(call.sig))
     IN /\ p # None
        /\ payload[p].locked
        /\ payload' = RcClone(payload, p)
        /\ \E outcome \in {"blocked", "panicked"} :
              /\ call' = [call EXCEPT !.pc = outcome, !.thisRef = p]
              /\ panicked' = (outcome = "panicked")
  /\ UNCHANGED <<isolateAlive, wrapper, object, sharedRefs, nextPayload,
                 lastOp, conv>>

\* the call made by the script of a function body is over: the body goes on
call_resume ==
  /\ call.pc = "done"
  /\ call.outer # <<>>
  /\ call' = [call.outer[1] EXCEPT !.outer = Tail(call.outer)]
  /\ UNCHANGED <<isolateAlive, wrapper, object, payload, sharedRefs,
                 nextPayload, panicked, lastOp, conv>>

\* the steps of an adapter and of the function it calls, which go on by
\* themselves once the engine has made the call
AdapterSteps ==
  \/ call_this
  \/ call_this_relock
  \/ call_arg
  \/ \E v \in NativeReturns : call_body(v)
  \/ call_return
  \/ call_resume
  \/ call_end

NextReentry ==
  \/ call_invoke
  \/ AdapterSteps

\* Every step is synchronous code on the one thread of the isolate: a call
\* that can go on does go on.
SpecReentry == InitCall /\ [][NextReentry]_vars /\ WF_vars(AdapterSteps)

\* ---- conversions on their own ----

\* the types conversions are made for
PrimTypes ==
  {TString, Tbool, Tf64, Tint("i32"), Tint("u32"), Tint("i64"), Tint("u64")}

\* struct TestObj { value: String }
TestObj == TStruct(<<Field("value", TString)>>)

\* a JSON-mappable struct with an integer field, one with an optional field
Counter == TStruct(<<Field("count", Tint("u32"))>>)

Labelled == TStruct(<<Field("value", TString),
                      Field("label", TOption(TString))>>)

StructTypes == {TestObj, Counter, Labelled}

SlotTypes == {TString, Tint("u32"), TestObj}

\* tuples of two slots, and tuples of three, four and five slots that begin
\* with them
TupleTypes ==
  LET pairs == {<<a, b>> : a \in SlotTypes, b \in SlotTypes}
  IN {TTuple(ts) : ts \in pairs}
       \cup {TTuple(ts \o <<TString>>) : ts \in pairs}
       \cup {TTuple(ts \o <<Tint("u32"), TString>>) : ts \in pairs}
       \cup {TTuple(ts \o <<TString, TString, Tint("u32")>>) : ts \in pairs}

InnerTypes ==
  PrimTypes \cup StructTypes
    \cup {TUnit, TLocal, TOption(TString), TVec(TString),
          TTuple(<<TString, Tint("u32")>>), TResult(TString, TString)}

CodecTypes ==
  InnerTypes \cup {TOption(t) : t \in InnerTypes}
    \cup {TVec(t) : t \in InnerTypes} \cup TupleTypes

\* doubles: 0, 1, 10, 1.5, -1, -1.5, NaN, the infinities, 2^31, 2^32,
\* 2^32 + 10, 2^53, 2^53 + 2, 2^63, -2^63, 2^64
Doubles ==
  {Small(0), Small(1), Small(10), F64("fin", FALSE, 0, 0, 1, TRUE),
   F64("fin", TRUE, 0, 0, 1, FALSE), F64("fin", TRUE, 0, 0, 1, TRUE),
   NaN, Infinity(FALSE), Infinity(TRUE),
   F64("fin", FALSE, 0, Pow2(7), 0, FALSE),
   F64("fin", FALSE, 0, Pow2(8), 0, FALSE),
   F64("fin", FALSE, 0, Pow2(8), 10, FALSE),
   F64("fin", FALSE, Pow2(5), 0, 0, FALSE),
   F64("fin", FALSE, Pow2(5), 0, 2, FALSE),
   F64("fin", FALSE, Pow2(15), 0, 0, FALSE),
   F64("fin", TRUE, Pow2(15), 0, 0, FALSE),
   F64("fin", FALSE, Pow2(16), 0, 0, FALSE)}

\* elements of the Arrays script passes
ElemValues == {Str(4), Num(Small(10)), Num(NaN)}

Arrays == {Arr(es) : es \in UNION {[1..n -> ElemValues] : n \in 0..MaxLen}}

Objects ==
  {Obj(<<>>), Obj(<<Prop("value", Str(4))>>),
   Obj(<<Prop("value", Num(Small(10)))>>),
   Obj(<<Prop("count", Num(Small(10)))>>),
   Obj(<<Prop("count", Num(NaN))>>),
   Obj(<<Prop("other", Null), Prop("value", Str(1))>>),
   Obj(<<Prop("value", Str(4)), Prop("label", Str(1))>>),
   Obj(<<Prop("value", Symbol)>>)}

CodecValues ==
  {Undefined, Null, Boolean(0), Boolean(1), Str(0), Str(4), Symbol}
    \cup {Num(d) : d \in Doubles} \cup Arrays \cup Objects

\* values of the integer types: 0, 1, the bounds of the type, and for the
\* types of 64 bits 2^53 - 1, 2^53, 2^53 + 1, 2^53 + 2 and their negatives
IntSamples(c) ==
  LET top == Pow2Less1(IF Signed(c) THEN Width(c) - 1 ELSE Width(c))
      low == Pow2Mag(Width(c) - 1)
      m53 == {IntOf(FALSE, Pow2(5) - 1, Limb - 1, Limb - 1),
              IntOf(FALSE, Pow2(5), 0, 0), IntOf(FALSE, Pow2(5), 0, 1),
              IntOf(FALSE, Pow2(5), 0, 2)}
  IN {IntOf(FALSE, 0, 0, 0), IntOf(FALSE, 0, 0, 1), IntOf(FALSE, 0, 0, 10),
      IntOf(FALSE, top.l2, top.l1, top.l0)}
       \cup (IF Signed(c)
               THEN {IntOf(TRUE, 0, 0, 1), IntOf(TRUE, low.l2, low.l1, low.l0)}
               ELSE {})
       \cup (IF Width(c) = 64 THEN m53 ELSE {})
       \cup (IF Width(c) = 64 /\ Signed(c)
               THEN {IntOf(TRUE, i.l2, i.l1, i.l0) : i \in m53} ELSE {})

\* native values of a type
RECURSIVE NativesOf(_)
NativesOf(ty) ==
  CASE ty.c = "String" -> {Native("String", 0), Native("String", 4)}
    [] ty.c = "bool" -> {Native("bool", 0), Native("bool", 1)}
    [] ty.c = "f64" -> {Wrap("f64", d) : d \in Doubles}
    [] ty.c \in IntTypes -> {Wrap(ty.c, i) : i \in IntSamples(ty.c)}
    [] ty.c = "()" -> {Native("unit", 0)}
    [] ty.c = "Local<Value>" ->
         {Wrap("Local", v) : v \in {Undefined, Null, Str(4)}}
    [] ty.c = "Option" ->
         {NoneValue} \cup {Some(n) : n \in NativesOf(ty.a[1])}
    [] ty.c = "Result" ->
         {Wrap("Ok", n) : n \in NativesOf(ty.a[1])}
           \cup {Wrap("Err", n) : n \in NativesOf(ty.a[2])}
    [] ty.c = "Vec" ->
         {Elems("Vec", es) :
            es \in UNION {[1..n -> NativesOf(ty.a[1])] : n \in 0..MaxVec}}
    [] ty.c = "Tuple" ->
         {Elems("Tuple", es) :
            es \in {f \in [1..Len(ty.a) ->
                             UNION {NativesOf(ty.a[i]) : i \in 1..Len(ty.a)}] :
                      \A i \in 1..Len(ty.a) : f[i] \in NativesOf(ty.a[i])}}
    [] ty.c = "struct" ->
         {Elems("struct", [i \in 1..Len(ty.a) |-> Prop(ty.a[i].c, f[i])]) :
            f \in {g \in [1..Len(ty.a) ->
                            UNION {NativesOf(ty.a[i].a[1]) :
                                     i \in 1..Len(ty.a)}] :
                     \A i \in 1..Len(ty.a) :
                        g[i] \in NativesOf(ty.a[i].a[1])}}

\* the types native values are encoded from
EncodeTypes ==
  PrimTypes \cup StructTypes
    \cup {TUnit, TOption(TString), TVec(TString),
          TTuple(<<TString, Tint("u32")>>), TTuple(<<Tint("u32"), TString>>),
          TTuple(<<Tint("u64"), TString>>), TTuple(<<TestObj, Tbool>>),
          TTuple(<<TString, Tint("u32"), TString>>),
          TTuple(<<TString, Tint("u32"), Tbool, TString>>),
          TTuple(<<Tbool, TString, Tint("u32"), TString, TString>>),
          TResult(TString, TString)}

NoNative == Native("none", 0)

\* no outcome yet
NotYet == Err(<<>>)

\* a conversion that is about to decode an engine value as a type, and one
\* that is about to encode a native value of a type
Decoding(ty, value) ==
  [pc |-> "decode", ty |-> ty, value |-> value, native |-> NoNative,
   res |-> NotYet, back |-> NotYet, swapped |-> FALSE]

Encoding(ty, native) ==
  [pc |-> "encode", ty |-> ty, value |-> Undefined, native |-> native,
   res |-> NotYet, back |-> NotYet, swapped |-> FALSE]

InitCodec ==
  /\ isolateAlive = TRUE
  /\ wrapper = [w \in Wrappers |-> NoWrapper]
  /\ object = [w \in Wrappers |-> NoObject]
  /\ payload = [p \in Payloads |-> NoPayload]
  /\ sharedRefs = [p \in Payloads |-> 0]
  /\ nextPayload = 1
  /\ panicked = FALSE
  /\ lastOp = Op("init", 0, "unit", None)
  /\ call = IdleCall
  /\ conv \in {Decoding(ty, value) : ty \in CodecTypes, value \in CodecValues}
               \cup UNION {{Encoding(ty, n) : n \in NativesOf(ty)} :
                             ty \in EncodeTypes}

\* T::from_value(value, scope, context)
conv_from_value ==
  /\ conv.pc = "decode"
  /\ conv' = [conv EXCEPT !.pc = "decoded",
                          !.res = from_value(conv.ty, conv.value)]
  /\ UNCHANGED <<isolateAlive, wrapper, object, payload, sharedRefs,
                 nextPayload, panicked, lastOp, call>>

\* the bodies of test_ffi_tuple2_1 and test_ffi_tuple2_2: (arg.1, arg.0)
test_ffi_tuple2 ==
  /\ conv.pc = "decoded"
  /\ conv.res.ok
  /\ conv.ty \in {TTuple(<<TString, Tint("u32")>>),
                  TTuple(<<Tint("u32"), TString>>)}
  /\ conv' = [conv EXCEPT !.pc = "encode",
                          !.ty = TTuple(<<conv.ty.a[2], conv.ty.a[1]>>),
                          !.native = Elems("Tuple", <<conv.res.val.x[2],
                                                     conv.res.val.x[1]>>),
                          !.res = NotYet,
                          !.swapped = TRUE]
  /\ UNCHANGED <<isolateAlive, wrapper, object, payload, sharedRefs,
                 nextPayload, panicked, lastOp, call>>

\* native.to_value(scope, context)
conv_to_value ==
  /\ conv.pc = "encode"
  /\ conv' = [conv EXCEPT !.pc = "encoded", !.res = to_value(conv.native)]
  /\ UNCHANGED <<isolateAlive, wrapper, object, payload, sharedRefs,
                 nextPayload, panicked, lastOp, call>>

\* T::from_value on the engine value to_value gave
conv_back ==
  /\ conv.pc = "encoded"
  /\ conv.res.ok
  /\ conv' = [conv EXCEPT !.pc = "back",
                          !.back = from_value(conv.ty, conv.res.val)]
  /\ UNCHANGED <<isolateAlive, wrapper, object, payload, sharedRefs,
                 nextPayload, panicked, lastOp, call>>

NextCodec ==
  \/ conv_from_value
  \/ test_ffi_tuple2
  \/ conv_to_value
  \/ conv_back

SpecCodec == InitCodec /\ [][NextCodec]_vars

\* which engine values decode as which parameter type
Decodes(ty, arg) ==
  \/ ty = TString /\ arg.kind = "string"
  \/ ty = Tf64 /\ arg.kind = "number"
  \/ ty = Tbool /\ arg.kind = "boolean"
  \/ ty = TOption(TString)

\* the text hay has the text needle in it
Contains(hay, needle) ==
  \E k \in 0..(Len(hay) - Len(needle)) :
     SubSeq(hay, k + 1, k + Len(needle)) = needle

\* C10: the adapter decodes engine argument i as the i-th parameter that is
\* neither receiver, scope nor context, in order; when a decode fails the
\* call is over with an exception that carries the error's message, no later
\* argument has been decoded, the function body has not run and the return
\* value is not set.
C10_FirstDecodeFailureThrows ==
  LET n == Len(call.decoded)
      ps == call.sig.params
  IN call.pc # "idle" =>
       /\ n <= Len(ps)
       /\ \A k \in 1..n :
             /\ call.decoded[k].idx = k - 1
             /\ call.decoded[k].ty = ps[k]
             /\ call.decoded[k].arg =
                  (IF k <= Len(call.args) THEN call.args[k] ELSE Undefined)
             /\ call.decoded[k].ok <=> Decodes(ps[k], call.decoded[k].arg)
             /\ k < n => call.decoded[k].ok
       /\ (n > 0 /\ ~call.decoded[n].ok) =>
             /\ call.pc = "done"
             /\ Contains(call.thrown, call.decoded[n].err)
             /\ call.decoded[n].err # <<>>
             /\ ~call.bodyRan
             /\ call.rv = Unset
       /\ call.bodyRan =>
             /\ n = Len(ps)
             /\ \A k \in 1..n : call.decoded[k].ok

\* the first of two arguments failed to decode in a scoped function with a
\* receiver
C10_Witness ==
  /\ call.pc = "done"
  /\ call.sig.this # 0 /\ call.sig.scoped
  /\ Len(call.sig.params) = 2
  /\ Len(call.args) = 2
  /\ Len(call.decoded) = 1
  /\ ~call.decoded[1].ok
  /\ Decodes(call.sig.params[2], call.args[2])

C12_FailedCallFrame ==
  (call.pc = "done" /\ ~call.bodyRan) =>
     call.pre = <<wrapper, object, payload, sharedRefs>>

\* the second argument of a call did not decode, after the receiver was
\* resolved and its mutex locked
C12_Witness ==
  /\ call.pc = "done" /\ ~call.bodyRan
  /\ call.sig.mutable
  /\ call.this.slot1 # None
  /\ Len(call.decoded) = 2
  /\ ~call.decoded[2].ok

\* C13: decoding Option<T> succeeds on every engine value, with Some(v) when
\* T::from_value succeeds with v and with None when it does not; it never
\* returns an error (and it returns).
C13_OptionDecodeTotal ==
  (conv.pc = "decoded" /\ conv.ty.c = "Option") =>
     LET r == from_value(conv.ty.a[1], conv.value)
     IN /\ conv.res.ok
        /\ r.ok => conv.res.val = Some(r.val)
        /\ ~r.ok => conv.res.val = NoneValue

C15_NonArrayIsEmpty ==
  (/\ conv.pc = "decoded"
   /\ conv.ty.c = "Vec"
   /\ conv.value.kind # "array") =>
     conv.res = Ok(Elems("Vec", <<>>))

\* an Object was decoded as a Vec of Result, whose own decoder never returns
C15_Witness ==
  /\ conv.pc = "decoded"
  /\ conv.ty = TVec(TResult(TString, TString))
  /\ conv.value.kind = "object"
  /\ conv.res.ok
  /\ conv.res.val.x = <<>>

\* C16: decoding as a tuple of N slots (N in 2..5) a value that is not an
\* Array gives an error; an Array whose length is not N gives an error whose
\* message names N; an Array of length N has element i decoded as slot type
\* i, each on its own: the decode succeeds with the tuple of the slots when
\* every slot decodes, and otherwise it returns the error of the failing slot
\* of lowest index (as Debug prints it).
C16_TupleDecode ==
  (conv.pc = "decoded" /\ conv.ty.c = "Tuple") =>
     LET n == Len(conv.ty.a)
         res == conv.res
         rs == [i \in 1..n |-> from_value(conv.ty.a[i], conv.value.x[i])]
     IN /\ n \in 2..5
        /\ conv.value.kind # "array" => ~res.ok /\ ~res.panic /\ res.err # <<>>
        /\ (conv.value.kind = "array" /\ Len(conv.value.x) # n) =>
              /\ ~res.ok /\ ~res.panic
              /\ Contains(res.err, <<ToString(n)>>)
        /\ (conv.value.kind = "array" /\ Len(conv.value.x) = n) =>
              /\ res.ok <=> \A i \in 1..n : rs[i].ok
              /\ res.ok => res.val = Elems("Tuple", [i \in 1..n |-> rs[i].val])
              /\ ~res.ok =>
                    /\ ~res.panic
                    /\ \E k \in 1..n :
                          /\ ~rs[k].ok
                          /\ \A j \in 1..(k - 1) : rs[j].ok
                          /\ res.err = DebugFmt(rs[k].err)

\* C17 as stated: encoding a tuple of N slots gives an Array of length N
\* whose index i holds the encoding of slot i, and decoding that Array with
\* the same slot types gives back the original tuple.
C17_TupleRoundTrip ==
  (conv.pc = "back" /\ conv.native.kind = "Tuple") =>
     /\ conv.res.val.kind = "array"
     /\ Len(conv.res.val.x) = Len(conv.native.x)
     /\ \A i \in 1..Len(conv.native.x) :
           Ok(conv.res.val.x[i]) = to_value(conv.native.x[i])
     /\ conv.back = Ok(conv.native)

\* C17, amended: tuple conversion keeps the order of the slots. Encoding a
\* tuple of N slots whose slots all encode gives an Array of length N whose
\* index i holds the encoding of slot i. Decoding that Array with the same
\* slot types decodes index i as slot i: when every slot decodes, slot i of
\* the result is what slot type i decodes from the encoding of slot i, so the
\* result is the original tuple when every slot comes back from its own
\* encoding, which an integer of 64 bits above 2^53 does not. The Array
\* ['test', 10], decoded as (String, u32), swapped to (u32, String) and
\* encoded, is [10, 'test'], which decodes as (u32, String).
C17_TupleSlotOrder ==
  LET n == Len(conv.native.x)
      es == [i \in 1..n |-> to_value(conv.native.x[i])]
      bs == [i \in 1..n |-> from_value(conv.ty.a[i], es[i].val)]
  IN /\ (/\ conv.pc \in {"encoded", "back"}
         /\ conv.native.kind = "Tuple"
         /\ \A i \in 1..n : es[i].ok) =>
           /\ conv.res.ok
           /\ conv.res.val.kind = "array"
           /\ Len(conv.res.val.x) = n
           /\ \A i \in 1..n : conv.res.val.x[i] = es[i].val
     /\ (/\ conv.pc = "back"
         /\ conv.native.kind = "Tuple"
         /\ \A i \in 1..n : bs[i].ok) =>
           /\ conv.back.ok
           /\ conv.back.val.kind = "Tuple"
           /\ Len(conv.back.val.x) = n
           /\ \A i \in 1..n : conv.back.val.x[i] = bs[i].val
           /\ (\A i \in 1..n : bs[i].val = conv.native.x[i]) =>
                 conv.back = Ok(conv.native)
     /\ (/\ conv.pc = "back"
         /\ conv.swapped
         /\ conv.value = Arr(<<Str(4), Num(Small(10))>>)) =>
           /\ conv.res = Ok(Arr(<<Num(Small(10)), Str(4)>>))
           /\ conv.back = Ok(Elems("Tuple", <<Wrap("u32", IntOf(FALSE, 0, 0, 10)),
                                             Native("String", 4)>>))

\* ['test', 10] went through test_ffi_tuple2_1 and came back as (u32, String)
C17_Witness ==
  /\ conv.pc = "back"
  /\ conv.swapped
  /\ conv.value = Arr(<<Str(4), Num(Small(10))>>)
  /\ conv.ty = TTuple(<<Tint("u32"), TString>>)
  /\ conv.back.ok

\* C18: decoding any engine value as Result<T, E> fails: the decode returns
\* an error, which carries a message, and never a success value.
C18_ResultDecodeFails ==
  (conv.pc = "decoded" /\ conv.ty.c = "Result") =>
     /\ ~conv.res.ok
     /\ ~conv.res.panic
     /\ conv.res.err # <<>>

\* C19: encoding an instance of a JSON-mappable type and decoding what that
\* gave yields an equal instance; decoding an engine Object that has no
\* property for a required field of the type returns an error.
C19_JsonRoundTrip ==
  /\ (conv.pc \in {"encoded", "back"} /\ conv.native.kind = "struct") =>
        conv.res.ok
  /\ (conv.pc = "back" /\ conv.native.kind = "struct") =>
        conv.back = Ok(conv.native)
  /\ (/\ conv.pc = "decoded"
      /\ conv.ty.c = "struct"
      /\ conv.value.kind = "object"
      /\ \E i \in 1..Len(conv.ty.a) :
            /\ conv.ty.a[i].a[1].c # "Option"
            /\ \A k \in 1..Len(conv.value.x) :
                  conv.value.x[k].name # conv.ty.a[i].c) =>
        /\ ~conv.res.ok
        /\ ~conv.res.panic
        /\ conv.res.err # <<>>

\* x == y of two values of a primitive type: a NaN equals no f64
eq(x, y) == x = y /\ ~(x.kind = "f64" /\ x.x[1].cls = "nan")

C21_IntegerDecodeWraps ==
  (/\ conv.pc = "decoded"
   /\ conv.ty.c \in IntTypes
   /\ conv.value.kind = "number") =>
     /\ conv.res.ok
     /\ conv.value.x[1].cls = "fin" =>
           conv.res.val =
             Wrap(conv.ty.c,
                  f64_as_int_wrapping(conv.value.x[1], Width(conv.ty.c),
                                      Signed(conv.ty.c)))

\* C21, amended: decoding an engine Number as an integer type of w bits makes
\* no range check and always succeeds; the fraction is dropped, and a Number
\* outside the range of the type does not wrap but gives the bound of the
\* type nearest to it (the largest value for a Number above the range and
\* for +infinity, the smallest, which is 0 for u32 and u64, for a Number
\* below it and for -infinity); NaN gives 0.
C21_IntegerDecodeSaturates ==
  (/\ conv.pc = "decoded"
   /\ conv.ty.c \in IntTypes
   /\ conv.value.kind = "number") =>
     LET f == conv.value.x[1]
         w == Width(conv.ty.c)
         signed == Signed(conv.ty.c)
         zero == f.l2 = 0 /\ f.l1 = 0 /\ f.l0 = 0
         t == IntOf(f.neg /\ ~zero, f.l2, f.l1, f.l0)
         top == Pow2Less1(IF signed THEN w - 1 ELSE w)
         low == IF signed THEN Pow2Mag(w - 1) ELSE Pow2Mag(0)
         i == conv.res.val.x[1]
     IN /\ conv.res.ok
        /\ conv.res.val.kind = conv.ty.c
        /\ f.cls = "nan" => i = IntOf(FALSE, 0, 0, 0)
        /\ (f.cls = "fin" /\ fits(t, w, signed)) => i = t
        /\ (f.cls = "inf" \/ ~fits(t, w, signed)) =>
              i = IF ~f.neg THEN IntOf(FALSE, top.l2, top.l1, top.l0)
                  ELSE IF signed THEN IntOf(TRUE, low.l2, low.l1, low.l0)
                  ELSE IntOf(FALSE, 0, 0, 0)

\* the Number 2^32 + 10 was decoded as a u32, to 2^32 - 1
C21_Witness ==
  /\ conv.pc = "decoded"
  /\ conv.ty = Tint("u32")
  /\ conv.value = Num(F64("fin", FALSE, 0, Pow2(8), 10, FALSE))
  /\ conv.res = Ok(Wrap("u32", IntOf(FALSE, 0, Pow2(8) - 1, Limb - 1)))

\* C22: a SharedRef that from_object or unwrap returns refers to a payload
\* that was alive, with a reference count of at least one, when the call was
\* made; so also after every ObjectWrap handle of the wrapper has been
\* dropped while the engine object is still there.
C22_NoReleasedPayloadHandedOut ==
  [][(lastOp'.op \in {"from_object", "unwrap"} /\ lastOp'.res = "some") =>
       /\ lastOp'.p # None
       /\ payload[lastOp'.p].rc >= 1
       /\ payload[lastOp'.p].live
       /\ payload'[lastOp'.p].live]_vars

\* from_object succeeded on the object of a wrapper all of whose ObjectWrap
\* handles had been dropped
C22_Witness ==
  /\ lastOp.op = "from_object" /\ lastOp.res = "some"
  /\ lastOp.w # 0
  /\ wrapper[lastOp.w].clones = 0
  /\ ~object[lastOp.w].collected
  /\ payload[lastOp.p].rc = 2

\* ---- a second run of the weak callback ----

\* wrap_weak_callback invoked once more with the pointer it was invoked with
\* before: the state after the second run, given the state before the first
wrap_weak_callback_twice(wr, ob, pl, iso) ==
  LET once == wrap_weak_callback(wr, ob, pl, iso)
  IN wrap_weak_callback(once.wr, ob, once.pl, iso)

\* C23: the finalization callback is idempotent: a second invocation for the
\* same wrapper leaves the handle null, the payload's reference count and the
\* wrapper's own reference count as the first invocation left them.  Taken
\* where native code still holds an ObjectWrap, so that the wrapper's
\* internal state is still allocated when the second invocation reads it.
C23_CallbackIdempotent ==
  \A w \in Wrappers :
    (/\ isolateAlive /\ ~panicked
     /\ LiveWeak(wrapper[w]) /\ ~object[w].collected
     /\ wrapper[w].clones > 0) =>
      LET once == wrap_weak_callback(wrapper[w], object[w], payload,
                                     isolateAlive)
          twice == wrap_weak_callback_twice(wrapper[w], object[w], payload,
                                            isolateAlive)
      IN /\ ~twice.wr.handle
         /\ twice.pl = once.pl
         /\ twice.wr.strong = once.wr.strong

\* ---- the self-reference of the weak registration ----

\* The Rc<Self> leaked by Weakable::get is still owed to the engine: the
\* strong counts of the internal state that are neither an ObjectWrap of
\* native code nor the one the Global in handle keeps.
SelfRefOutstanding(wr) ==
  wr.strong - wr.clones - (IF wr.handle THEN 1 ELSE 0)

\* C24 as stated: in every reachable state v8_reference is non-null iff the
\* self-reference of the weak registration is outstanding, each release path
\* leaving v8_reference null.
C24_ReferenceIffOutstanding ==
  \A w \in Wrappers :
    (wrapper[w].created /\ ~wrapper[w].dropped) =>
      (wrapper[w].v8_reference <=> SelfRefOutstanding(wrapper[w]) = 1)

\* C24: the weak registration holds at most one self-reference, which is
\* never released twice; while the handle is set, v8_reference is non-null
\* iff that self-reference is outstanding (Weakable::get sets it only when
\* it was null, Weakable::clear releases the reference and leaves it null);
\* the finalization callback releases the self-reference once and leaves
\* v8_reference as it was, so that on an empty wrapper v8_reference may be
\* non-null with no self-reference outstanding.
C24_SelfReferenceReleasedOnce ==
  /\ ~panicked
  /\ \A w \in Wrappers :
       wrapper[w].created =>
         /\ SelfRefOutstanding(wrapper[w]) \in {0, 1}
         /\ SelfRefOutstanding(wrapper[w]) = 1 =>
              wrapper[w].v8_reference /\ wrapper[w].handle
         /\ wrapper[w].handle =>
              /\ wrapper[w].v8_reference <=>
                   SelfRefOutstanding(wrapper[w]) = 1
              /\ wrapper[w].v8_reference <=> Global_is_weak(wrapper[w])
         /\ wrapper[w].dropped => wrapper[w].strong = 0

\* the callback has released the self-reference of a wrapper that native
\* code still holds, and v8_reference still holds the pointer
C24_Witness ==
  \E w \in Wrappers :
    /\ lastOp.op = "wrap_weak_callback" /\ lastOp.w = w
    /\ wrapper[w].created /\ ~wrapper[w].dropped
    /\ ~wrapper[w].handle
    /\ wrapper[w].clones = 2
    /\ wrapper[w].v8_reference
    /\ SelfRefOutstanding(wrapper[w]) = 0

C26_ReceiverResolvedFirst ==
  LET sig == call.sig
      looked_up == IF sig.mutable THEN MutexType(sig.this) ELSE sig.this
      absent == \/ call.this.count # 2
                \/ call.this.slot0 # type_id_to_u64(looked_up)
      rejected == /\ call.pc = "done"
                  /\ call.thrown = <<"invalid 'this' for ffi call">>
                  /\ call.decoded = <<>>
                  /\ ~call.bodyRan
                  /\ call.rv = Unset
                  /\ call.thisRef = None
  IN (call.pc # "idle" /\ sig.this # 0) =>
       /\ call.pc = "this" => call.decoded = <<>> /\ call.thrown = <<>>
       /\ (call.pc # "this" /\ absent) => rejected
       /\ (call.pc # "this" /\ sig.mutable /\ call.this.count = 2
             /\ call.this.slot0 = type_id_to_u64(sig.this)) => rejected
       /\ (call.pc \in {"args", "ret"}) =>
             ~absent /\ call.thisRef = call.this.slot1
       /\ call.bodyRan => ~absent

\* a function taking `this: &mut T` and two parameters was called with two
\* arguments on an object that wraps a plain T, and has thrown
C26_Witness ==
  /\ call.pc = "done"
  /\ call.sig.mutable /\ call.sig.this = 2
  /\ call.this.count = 2 /\ call.this.slot0 = type_id_to_u64(2)
  /\ Len(call.sig.params) = 2 /\ Len(call.args) = 2
  /\ call.thrown = <<"invalid 'this' for ffi call">>

\* C27: every adapter invocation with a mutable receiver eventually returns,
\* with a value or an exception, and the lock it took on the payload is
\* released again, also when the function body runs script that calls
\* another function with a mutable receiver on the same wrapped object.
C27_MutableCallReturns ==
  /\ \A d \in 0..(MaxDepth - 1) :
       (Len(call.outer) = d /\ call.pc = "this" /\ call.sig.mutable)
         ~> (Len(call.outer) = d /\ call.pc = "done")
  /\ \A p \in Payloads : payload[p].locked ~> ~payload[p].locked

\* C28: decoding an Array as Vec<T> decodes its elements in index order: when
\* every element decodes the result is the Vec of the decoded elements, same
\* length and order; otherwise the decode returns the error of the first
\* element that does not decode, and nothing of the elements behind it shows.
\* Encoding a Vec<T> gives the Array of the encoded elements, same length and
\* order, or the error of the first element that does not encode.
C28_VecElementOrder ==
  /\ (conv.pc = "decoded" /\ conv.ty.c = "Vec"
        /\ conv.value.kind = "array") =>
       LET n == Len(conv.value.x)
           res == conv.res
           rs == [i \in 1..n |-> from_value(conv.ty.a[1], conv.value.x[i])]
       IN /\ ~res.panic
          /\ res.ok <=> \A i \in 1..n : rs[i].ok
          /\ res.ok => res.val = Elems("Vec", [i \in 1..n |-> rs[i].val])
          /\ ~res.ok =>
                \E k \in 1..n :
                  /\ ~rs[k].ok
                  /\ \A j \in 1..(k - 1) : rs[j].ok
                  /\ res.err = rs[k].err /\ res.err # <<>>
  /\ (conv.pc = "encoded" /\ conv.native.kind = "Vec") =>
       LET n == Len(conv.native.x)
           res == conv.res
           rs == [i \in 1..n |-> to_value(conv.native.x[i])]
       IN /\ ~res.panic
          /\ res.ok <=> \A i \in 1..n : rs[i].ok
          /\ res.ok => res.val = Arr([i \in 1..n |-> rs[i].val])
          /\ ~res.ok =>
                \E k \in 1..n :
                  /\ ~rs[k].ok
                  /\ \A j \in 1..(k - 1) : rs[j].ok
                  /\ res.err = rs[k].err /\ res.err # <<>>

\* C29: decoding any engine value through the JSON-mappable path ends with a
\* decoded value or with an error message, never with an abort; a value that
\* is none of Array, Object, String, Number, Boolean, null and undefined
\* gives the error "unknown js type for jsonification"; and this holds for
\* every Number, the ones that are not finite too, at any depth.
C29_JsonDecodeNeverAborts ==
  (conv.pc = "decoded" /\ conv.ty.c = "struct") =>
     /\ ~conv.res.panic
     /\ conv.res.ok \/ conv.res.err # <<>>
     /\ conv.value.kind = "symbol" =>
          conv.res.err = <<"unknown js type for jsonification">>

\* C30: whenever the wrapper's handle is non-null, its wrapping field holds
\* the payload pointer that is in slot 1 of its engine object, after any
\* sequence of new and swap; so the pointer the finalization callback
\* releases is the one unwrap and the destructor read from slot 1.
C30_WrappingIsSlot1 ==
  /\ \A w \in Wrappers :
       (wrapper[w].created /\ wrapper[w].handle) =>
          /\ wrapper[w].wrapping # None
          /\ wrapper[w].wrapping = object[w].slot1
          /\ unwrap_result(wrapper[w], object[w]) = wrapper[w].wrapping
  /\ lastOp.op = "wrap_weak_callback" =>
       /\ lastOp.p = object[lastOp.w].slot1
       /\ payload[lastOp.p].cbRel = 1

\* the callback has released the payload that a swap put in place of the
\* one given to new
C30_Witness ==
  /\ lastOp.op = "wrap_weak_callback"
  /\ lastOp.p = 2
  /\ object[lastOp.w].slot1 = 2
  /\ payload[2].cbRel = 1
  /\ payload[1].cbRel = 0

====
